---- MODULE Spec2Model ----
(***************************************************************************)
(* Golf Cartographer: a suite of Inkscape extensions that mutate one live  *)
(* SVG document (flatten -> group hole -> auto-place -> add label ->       *)
(* export PDFs).  The document is modelled as a tree of element records;   *)
(* every tool run is one action that rewrites the tree the way the tool's  *)
(* effect() does.                                                          *)
(***************************************************************************)
EXTENDS Integers, Sequences, FiniteSets, TLC

VARIABLES
    doc,    \* the SVG document: node number -> element record; node 0 is the root
    pre,    \* the document as it was before the last tool run (history)
    last,   \* what the last tool run was and how it ended (history)
    ran,    \* the set of tools that have been run on the document (history)
    steps,  \* how many tool runs there have been (history)
    files   \* the PDF files in the output directory: file name -> list of pages

vars == <<doc, pre, last, ran, steps, files>>

\* Body at the value of v.  A chain of document rewrites is written with Bind
\* so that every intermediate document is computed once.
Bind(v, Body(_)) == CHOOSE r \in {Body(x) : x \in {v}} : TRUE

----------------------------------------------------------------------------
(* Identifiers and labels.  An id or label "name_NN" (f"{name}_{n:02d}") is *)
(* the triple <<name, n, k>>; k numbers the greens of a multi-green hole   *)
(* (green_NN_KK) and is 0 otherwise.  A missing attribute is NoName.       *)

NoName == <<"", 0, 0>>
Name(s, n) == <<s, n, 0>>
Word(s) == <<s, 0, 0>>

None == -1          \* Python's None where a node is expected
Root == 0           \* self.document.getroot()

----------------------------------------------------------------------------
(* Elements *)

Element(tag, id, label, kids) ==
    [tag |-> tag, id |-> id, label |-> label, kids |-> kids,
     display |-> "unset", visibility |-> "unset",
     cat |-> "none", pts |-> <<>>, tr |-> <<0, 0, 1>>, clip |-> NoName, placed |-> FALSE]

Group(id, label, kids) == Element("g", id, label, kids)

IsGroup(d, n) == d[n].tag = "g"

Range(s) == {s[i] : i \in 1..Len(s)}

\* element.getparent()
GetParent(d, n) ==
    IF \E p \in DOMAIN d : n \in Range(d[p].kids)
    THEN CHOOSE p \in DOMAIN d : n \in Range(d[p].kids)
    ELSE None

\* list(parent).index(element), 0-based as in Python
IndexOf(s, x) == (CHOOSE i \in 1..Len(s) : s[i] = x) - 1

RemoveFrom(s, x) == SelectSeq(s, LAMBDA y : y # x)

\* list.insert(i, x) with a 0-based index; an index past the end appends
InsertAt(s, i, x) ==
    IF i >= Len(s) THEN Append(s, x)
    ELSE SubSeq(s, 1, i) \o <<x>> \o SubSeq(s, i + 1, Len(s))

\* parent.remove(element)
Remove(d, p, n) == [d EXCEPT ![p].kids = RemoveFrom(@, n)]

\* lxml moves an element that already has a parent: detach, then attach
Detach(d, n) ==
    IF GetParent(d, n) = None THEN d ELSE Remove(d, GetParent(d, n), n)

\* parent.append(element)
AppendTo(d, p, n) == [Detach(d, n) EXCEPT ![p].kids = Append(@, n)]

\* parent.insert(index, element)
InsertInto(d, p, i, n) == [Detach(d, n) EXCEPT ![p].kids = InsertAt(@, i, n)]

\* a node number no element of the document uses
Fresh(d) == CHOOSE n \in 0..Cardinality(DOMAIN d) :
                /\ n \notin DOMAIN d
                /\ \A m \in 0..(n - 1) : m \in DOMAIN d

\* the document with a new, parentless element
WithNew(d, rec) == [n \in DOMAIN d \cup {Fresh(d)} |-> IF n \in DOMAIN d THEN d[n] ELSE rec]

\* root.iter(): the subtree of n in document (pre-)order
RECURSIVE Iter(_, _)
RECURSIVE IterAll(_, _)
Iter(d, n) == <<n>> \o IterAll(d, d[n].kids)
IterAll(d, ks) ==
    IF ks = <<>> THEN <<>> ELSE Iter(d, Head(ks)) \o IterAll(d, Tail(ks))

\* the first element of a sequence of nodes that satisfies a test, or None
FirstWhere(s, Test(_)) ==
    Bind(SelectSeq(s, Test), LAMBDA hits : IF hits = <<>> THEN None ELSE Head(hits))

\* root.getElementById(id)
GetElementById(d, id) == FirstWhere(Iter(d, Root), LAMBDA n : d[n].id = id)

\* drop the elements that are no longer in the tree (Python frees them)
Collect(d) == [n \in Range(Iter(d, Root)) |-> d[n]]

\* copy.deepcopy(element): a copy of the subtree of n, not yet in the tree
RECURSIVE DeepCopy(_, _)
RECURSIVE CopyKids(_, _, _)
DeepCopy(d, n) ==
    Bind(CopyKids(d, d[n].kids, <<>>), LAMBDA r :
        [doc |-> WithNew(r.doc, [d[n] EXCEPT !.kids = r.kids]), node |-> Fresh(r.doc)])
CopyKids(d, ks, acc) ==
    IF ks = <<>> THEN [doc |-> d, kids |-> acc]
    ELSE Bind(DeepCopy(d, Head(ks)), LAMBDA c :
            CopyKids(c.doc, Tail(ks), Append(acc, c.node)))

\* element.copy(): a deep copy whose top element has no id
Copy(d, n) ==
    Bind(DeepCopy(d, n), LAMBDA c : [doc |-> [c.doc EXCEPT ![c.node].id = NoName], node |-> c.node])

\* append every element of a list to a parent, in list order
RECURSIVE AppendAll(_, _, _)
AppendAll(d, p, ns) ==
    IF ns = <<>> THEN d
    ELSE Bind(AppendTo(d, p, Head(ns)), LAMBDA e : AppendAll(e, p, Tail(ns)))

----------------------------------------------------------------------------
(* Planar arithmetic.  Coordinates in the source are floats; here a point  *)
(* is an exact fraction <<x, y, den>> = (x/den, y/den) with den > 0, and a *)
(* transform is a translation by such a point.                             *)

Abs(x) == IF x < 0 THEN -x ELSE x

RECURSIVE GCD(_, _)
GCD(a, b) == IF b = 0 THEN a ELSE GCD(b, a % b)

VNorm(v) ==
    LET g == GCD(GCD(Abs(v[1]), Abs(v[2])), Abs(v[3]))
        s == IF v[3] < 0 THEN -1 ELSE 1
    IN  <<(s * v[1]) \div g, (s * v[2]) \div g, (s * v[3]) \div g>>

VAdd(a, b) == VNorm(<<a[1] * b[3] + b[1] * a[3], a[2] * b[3] + b[2] * a[3], a[3] * b[3]>>)
VSub(a, b) == VNorm(<<a[1] * b[3] - b[1] * a[3], a[2] * b[3] - b[2] * a[3], a[3] * b[3]>>)
VEq(a, b)  == a[1] * b[3] = b[1] * a[3] /\ a[2] * b[3] = b[2] * a[3]

Identity == <<0, 0, 1>>         \* Transform()

RECURSIVE Sum(_)
Sum(s) == IF s = <<>> THEN 0 ELSE Head(s) + Sum(Tail(s))

Min(S) == CHOOSE x \in S : \A y \in S : x <= y
Max(S) == CHOOSE x \in S : \A y \in S : x >= y

\* element.bounding_box() is None for an element without geometry
HasBoundingBox(d, n) == d[n].pts # <<>>

\* the box of the element's own geometry, before its transform
LocalBox(d, n) ==
    LET xs == {d[n].pts[i][1] : i \in 1..Len(d[n].pts)}
        ys == {d[n].pts[i][2] : i \in 1..Len(d[n].pts)}
    IN  [left |-> Min(xs), right |-> Max(xs), top |-> Min(ys), bottom |-> Max(ys)]

\* ((bbox.left + bbox.right) / 2, (bbox.top + bbox.bottom) / 2) of
\* element.bounding_box(), which applies the element's own transform (and
\* not its ancestors')
BoxCentre(d, n) ==
    LET b == LocalBox(d, n)
    IN  VAdd(<<b.left + b.right, b.top + b.bottom, 2>>, d[n].tr)

----------------------------------------------------------------------------
(* transform_utils.measure_elements_via_temp_group *)

\* element_origins: (element, original parent, original index) per element
ElementOrigins(d, elements) ==
    [k \in 1..Len(elements) |->
        [element |-> elements[k],
         parent  |-> GetParent(d, elements[k]),
         index   |-> IF GetParent(d, elements[k]) = None THEN 0
                     ELSE IndexOf(d[GetParent(d, elements[k])].kids, elements[k])]]

\* the try block's loop: every element is moved into the temp group
RECURSIVE MoveToTemp(_, _, _)
MoveToTemp(d, origins, temp) ==
    IF origins = <<>> THEN d
    ELSE Bind(AppendTo(d, temp, Head(origins).element), LAMBDA e :
            MoveToTemp(e, Tail(origins), temp))

\* one step of the finally block's loop:
\* if element.getparent() is temp: temp.remove(element); then
\* if original_parent is not None: original_parent.insert(original_index, element)
RestoreOne(d, o, temp) ==
    Bind(IF GetParent(d, o.element) = temp THEN Remove(d, temp, o.element) ELSE d, LAMBDA e :
        IF o.parent # None THEN InsertInto(e, o.parent, o.index, o.element) ELSE e)

\* the finally block's loop: elements go back in the order of the list
RECURSIVE RestoreFromTemp(_, _, _)
RestoreFromTemp(d, origins, temp) ==
    IF origins = <<>> THEN d
    ELSE Bind(RestoreOne(d, Head(origins), temp), LAMBDA e :
            RestoreFromTemp(e, Tail(origins), temp))

TempGroupId(elements) == Name("_temp_measure", Head(elements))

\* the document after the call; measuring may raise, the finally block runs
\* either way, so the resulting tree is the same in both outcomes
MeasureElementsViaTempGroup(d, elements, tempId) ==
    IF elements = <<>> THEN d
    ELSE Bind(ElementOrigins(d, elements), LAMBDA origins :
         Bind(AppendTo(WithNew(d, Group(tempId, NoName, <<>>)), Root, Fresh(d)), LAMBDA d0 :
         Bind(MoveToTemp(d0, origins, Fresh(d)), LAMBDA d1 :
         Bind(RestoreFromTemp(d1, origins, Fresh(d)), LAMBDA d2 :
         Bind(IF GetParent(d2, Fresh(d)) # None THEN Remove(d2, Root, Fresh(d)) ELSE d2,
              LAMBDA d3 : Collect(d3))))))

\* AutoPlaceHoles._measure_terrain_via_temp_group: the terrain children of a
\* hole group (its green_NN and its fairways and bunkers groups), in child order
IsTerrain(d, child, hole_num) ==
    \/ d[child].id = Name("green", hole_num)
    \/ IsGroup(d, child) /\ d[child].label \in {Word("fairways"), Word("bunkers")}

TerrainElements(d, hole_group, hole_num) ==
    SelectSeq(d[hole_group].kids, LAMBDA c : IsTerrain(d, c, hole_num))

MeasureTerrainViaTempGroup(d, hole_group, hole_num) ==
    MeasureElementsViaTempGroup(d, TerrainElements(d, hole_group, hole_num),
                                Name("_temp_terrain_measure", hole_num))

----------------------------------------------------------------------------
(* group_hole.py: Group Hole (Stage 2) *)

\* color_utils.categorize_element_by_color; the element's colour class is
\* kept in cat ("green", "fairway", "bunker", "water", "tree", "other", ...)
CategorizeElementByColor(d, n) == d[n].cat

\* 'yardage' in label.lower()
YardageLabels == {"yardage_lines", "yardage_chart", "tee_yardages"}
HasYardage(label) == label[1] \in YardageLabels

\* GroupHole._find_yardage_template: by the id option, else the first group
\* in document order whose label contains 'yardage'
FindYardageTemplate(d, yardage_line_group) ==
    IF yardage_line_group # NoName /\ GetElementById(d, yardage_line_group) # None
    THEN GetElementById(d, yardage_line_group)
    ELSE FirstWhere(Iter(d, Root), LAMBDA n : IsGroup(d, n) /\ HasYardage(d[n].label))

\* GroupHole._find_root_other_group: the child of the root labelled 'other'
FindRootOtherGroup(d) ==
    FirstWhere(d[Root].kids, LAMBDA n : IsGroup(d, n) /\ d[n].label = Word("other"))

\* the vertices the centroid code extracts: the path points of the path
\* elements, concatenated in list order, in the paths' own coordinates
RECURSIVE AllPoints(_, _)
AllPoints(d, elements) ==
    IF elements = <<>> THEN <<>>
    ELSE (IF d[Head(elements)].tag = "path" THEN d[Head(elements)].pts ELSE <<>>)
         \o AllPoints(d, Tail(elements))

\* x1 * y2 - x2 * y1 for the edge from vertex i to the next one (wrapping)
Cross(P, i) ==
    LET j == (i % Len(P)) + 1
    IN  P[i][1] * P[j][2] - P[j][1] * P[i][2]

\* the shoelace sums: twice the signed area and the two centroid sums
Area2(P) == Sum([i \in 1..Len(P) |-> Cross(P, i)])
CxSum(P) == Sum([i \in 1..Len(P) |-> (P[i][1] + P[(i % Len(P)) + 1][1]) * Cross(P, i)])
CySum(P) == Sum([i \in 1..Len(P) |-> (P[i][2] + P[(i % Len(P)) + 1][2]) * Cross(P, i)])

\* levels 1 and 2: shoelace centroid cx / (6 * area) when abs(area) > 0.0001,
\* else the mean of the vertices.  With integer vertices area = Area2 / 2 is a
\* multiple of 0.5, so abs(area) > 0.0001 exactly when Area2 is not 0.
PolygonCentroid(P) ==
    IF Area2(P) # 0
    THEN VNorm(<<CxSum(P), CySum(P), 3 * Area2(P)>>)
    ELSE VNorm(<<Sum([i \in 1..Len(P) |-> P[i][1]]), Sum([i \in 1..Len(P) |-> P[i][2]]), Len(P)>>)

\* level 3: the mean of the bounding-box centres; (0, 0) when there is none
RECURSIVE CentreSum(_, _)
CentreSum(d, elements) ==
    IF elements = <<>> THEN Identity
    ELSE VAdd(BoxCentre(d, Head(elements)), CentreSum(d, Tail(elements)))

BoxCentreMean(d, elements) ==
    Bind(SelectSeq(elements, LAMBDA e : HasBoundingBox(d, e)), LAMBDA boxed :
        IF boxed = <<>> THEN Identity
        ELSE Bind(CentreSum(d, boxed), LAMBDA total :
                VNorm(<<total[1], total[2], total[3] * Len(boxed)>>)))

\* GroupHole._calculate_centroid
CalculateCentroid(d, elements) ==
    Bind(AllPoints(d, elements), LAMBDA P :
        IF Len(P) >= 3 THEN PolygonCentroid(P) ELSE BoxCentreMean(d, elements))

\* effect, lines 147-183: the copy of the template is made visible and, when
\* the selection has a green, translated so that its box centre lands on the
\* centroid (or by the centroid itself when the copy has no bounding box)
PositionClone(d, clone, green_elements) ==
    Bind([d EXCEPT ![clone].display = "inline", ![clone].visibility = "visible"], LAMBDA shown :
        IF green_elements = <<>> THEN shown
        ELSE Bind(CalculateCentroid(d, green_elements), LAMBDA centroid :
                IF HasBoundingBox(d, clone)
                THEN [shown EXCEPT ![clone].tr = VAdd(VSub(centroid, BoxCentre(d, clone)), @)]
                ELSE [shown EXCEPT ![clone].tr = VAdd(centroid, @)]))

\* effect, lines 146-183: the document with the positioned copy (not yet in
\* the tree), and the template and the copy, None when there is no template
CloneYardageTemplate(d, yardage_line_group, green_elements) ==
    Bind(FindYardageTemplate(d, yardage_line_group), LAMBDA template :
        IF template = None THEN [doc |-> d, template |-> None, clone |-> None]
        ELSE Bind(Copy(d, template), LAMBDA c :
                [doc |-> PositionClone(c.doc, c.node, green_elements),
                 template |-> template, clone |-> c.node]))

\* effect, lines 196-208: copies of the children of the root 'other' group,
\* except mapping_lines
RECURSIVE CopyChildrenInto(_, _, _)
CopyChildrenInto(d, children, target) ==
    IF children = <<>> THEN d
    ELSE IF IsGroup(d, Head(children)) /\ d[Head(children)].label = Word("mapping_lines")
    THEN CopyChildrenInto(d, Tail(children), target)
    ELSE Bind(Copy(d, Head(children)), LAMBDA c :
         Bind(AppendTo(c.doc, target, c.node), LAMBDA e :
            CopyChildrenInto(e, Tail(children), target)))

CopyRootOther(d, target) ==
    Bind(FindRootOtherGroup(d), LAMBDA root_other_group :
        IF root_other_group = None THEN d
        ELSE CopyChildrenInto(d, d[root_other_group].kids, target))

\* effect, lines 225-236: green ids green_NN, or green_NN_01, green_NN_02, ...
\* for several greens; each green is appended to the hole group
RECURSIVE AddGreens(_, _, _, _, _)
AddGreens(d, hole_group, hole_num, green_elements, i) ==
    IF i > Len(green_elements) THEN d
    ELSE Bind(AppendTo([d EXCEPT ![green_elements[i]].id =
                            IF Len(green_elements) > 1 THEN <<"green", hole_num, i>>
                            ELSE Name("green", hole_num)],
                       hole_group, green_elements[i]), LAMBDA e :
            AddGreens(e, hole_group, hole_num, green_elements, i + 1))

\* root.find('.//svg:defs') and root.find('.//svg:clipPath[@id="canvas-clip"]')
FindDefs(d) == FirstWhere(Tail(Iter(d, Root)), LAMBDA n : d[n].tag = "defs")
FindClipPath(d, id) ==
    FirstWhere(Tail(Iter(d, Root)), LAMBDA n : d[n].tag = "clipPath" /\ d[n].id = id)

\* the defs element, made and inserted first in the root when there was none
EnsureDefs(d) ==
    IF FindDefs(d) = None
    THEN InsertInto(WithNew(d, Element("defs", NoName, NoName, <<>>)), Root, 0, Fresh(d))
    ELSE d

\* GroupHole._ensure_canvas_clip
EnsureCanvasClip(d) ==
    Bind(EnsureDefs(d), LAMBDA d1 :
        IF FindClipPath(d1, Word("canvas-clip")) # None THEN d1
        ELSE Bind(WithNew(d1, Element("rect", NoName, NoName, <<>>)), LAMBDA d2 :
             Bind(WithNew(d2, Element("clipPath", Word("canvas-clip"), NoName, <<Fresh(d1)>>)),
                  LAMBDA d3 : AppendTo(d3, FindDefs(d1), Fresh(d2)))))

\* effect, lines 104-116: the new, still empty groups
GroupHoleNodes(d, hole_num) ==
    Bind(WithNew(d, Group(NoName, Name("hole", hole_num), <<>>)), LAMBDA d1 :
    Bind(WithNew(d1, Group(NoName, Word("fairways"), <<>>)), LAMBDA d2 :
    Bind(WithNew(d2, Group(NoName, Word("bunkers"), <<>>)), LAMBDA d3 :
        [doc |-> WithNew(d3, Group(NoName, Word("other"), <<>>)),
         hole |-> Fresh(d), fairways |-> Fresh(d1), bunkers |-> Fresh(d2), other |-> Fresh(d3)])))

InCategory(d, selected, cats) ==
    SelectSeq(selected, LAMBDA e : CategorizeElementByColor(d, e) \in cats)

NotInCategory(d, selected, cats) ==
    SelectSeq(selected, LAMBDA e : CategorizeElementByColor(d, e) \notin cats)

\* effect, lines 216-221: a subgroup joins the hole group when it is not empty
AppendIfFilled(d, hole_group, subgroup) ==
    IF d[subgroup].kids # <<>> THEN AppendTo(d, hole_group, subgroup) ELSE d

\* a faulty assembly: the greens are attached before the subgroups
AssembleHoleGreensFirst(d, g, hole_num, green_elements, yardage_clone) ==
    Bind(AddGreens(d, g.hole, hole_num, green_elements, 1), LAMBDA d1 :
    Bind(AppendIfFilled(d1, g.hole, g.other), LAMBDA d2 :
    Bind(AppendIfFilled(d2, g.hole, g.bunkers), LAMBDA d3 :
    Bind(AppendIfFilled(d3, g.hole, g.fairways), LAMBDA d4 :
    Bind(IF yardage_clone # None THEN AppendTo(d4, g.hole, yardage_clone) ELSE d4, LAMBDA d5 :
    Bind(EnsureCanvasClip(d5), LAMBDA d6 :
    Bind([d6 EXCEPT ![g.hole].clip = Word("canvas-clip")], LAMBDA d7 :
        AppendTo(d7, Root, g.hole))))))))

\* effect, lines 210-249: other, bunkers, fairways, the greens, the yardage
\* lines; the clip path; the hole group becomes the last child of the root
AssembleHole(d, g, hole_num, green_elements, yardage_clone) ==
    Bind(AppendIfFilled(d, g.hole, g.other), LAMBDA d1 :
    Bind(AppendIfFilled(d1, g.hole, g.bunkers), LAMBDA d2 :
    Bind(AppendIfFilled(d2, g.hole, g.fairways), LAMBDA d3 :
    Bind(AddGreens(d3, g.hole, hole_num, green_elements, 1), LAMBDA d4 :
    Bind(IF yardage_clone # None THEN AppendTo(d4, g.hole, yardage_clone) ELSE d4, LAMBDA d5 :
    Bind(EnsureCanvasClip(d5), LAMBDA d6 :
    Bind([d6 EXCEPT ![g.hole].clip = Word("canvas-clip")], LAMBDA d7 :
        AppendTo(d7, Root, g.hole))))))))

\* GroupHole.effect, for a non-empty selection: the resulting document and
\* the elements the run found or made
GroupHoleRun(d, hole_num, selected, yardage_line_group) ==
    Bind(GroupHoleNodes(d, hole_num), LAMBDA g :
    Bind(AppendAll(g.doc, g.fairways, InCategory(d, selected, {"fairway"})), LAMBDA d1 :
    Bind(AppendAll(d1, g.bunkers, InCategory(d, selected, {"bunker"})), LAMBDA d2 :
    Bind(CloneYardageTemplate(d2, yardage_line_group, InCategory(d, selected, {"green"})), LAMBDA y :
    Bind(AppendAll(y.doc, g.other, NotInCategory(d, selected, {"green", "fairway", "bunker"})),
         LAMBDA d3 :
    Bind(CopyRootOther(d3, g.other), LAMBDA d4 :
    Bind(AssembleHole(d4, g, hole_num, InCategory(d, selected, {"green"}), y.clone), LAMBDA d5 :
        [doc |-> Collect(d5), hole |-> g.hole, template |-> y.template, clone |-> y.clone,
         greens |-> InCategory(d, selected, {"green"})])))))))

\* one run of the tool; an empty selection is reported and nothing changes
GroupHole(hole_num, selected, yardage_line_group) ==
    /\ pre' = doc
    /\ ran' = ran \cup {"group_hole"}
    /\ steps' = steps + 1
    /\ UNCHANGED files
    /\ IF selected = <<>>
       THEN /\ doc' = doc
            /\ last' = [op |-> "group_hole", hole_number |-> hole_num, selected |-> selected,
                        error |-> "Please select elements for the hole"]
       ELSE \E r \in {GroupHoleRun(doc, hole_num, selected, yardage_line_group)} :
                /\ doc' = r.doc
                /\ last' = [op |-> "group_hole", hole_number |-> hole_num, selected |-> selected,
                            error |-> "", hole |-> r.hole, template |-> r.template,
                            clone |-> r.clone, greens |-> r.greens]

----------------------------------------------------------------------------
(* Specification SpecMeasure: calls of measure_elements_via_temp_group on a *)
(* document with two hole groups.                                          *)

MaxMeasured == 2        \* longest list of elements handed to one call
MaxCalls == 2           \* calls in one behaviour

\* root: defs, hole_01 (fairways, green_01, yardage lines), hole_02 (bunkers, green_02)
MeasureDoc ==
    (0 :> Element("svg", NoName, NoName, <<1, 2, 3>>)) @@
    (1 :> Element("defs", NoName, NoName, <<>>)) @@
    (2 :> Group(NoName, Name("hole", 1), <<4, 5, 6>>)) @@
    (3 :> Group(NoName, Name("hole", 2), <<7, 8>>)) @@
    (4 :> Group(NoName, Word("fairways"), <<>>)) @@
    (5 :> Element("path", Name("green", 1), NoName, <<>>)) @@
    (6 :> Group(NoName, Word("yardage_lines"), <<>>)) @@
    (7 :> Group(NoName, Word("bunkers"), <<>>)) @@
    (8 :> Element("path", Name("green", 2), NoName, <<>>))

\* the lists of distinct elements of s, up to n long
RECURSIVE ListsOver(_, _)
ListsOver(s, n) ==
    IF n = 0 THEN {<<>>}
    ELSE Bind(ListsOver(s, n - 1), LAMBDA shorter :
            shorter \cup {Append(l, x) : l \in shorter, x \in s})

DistinctLists(s, n) ==
    {l \in ListsOver(s, n) : \A i, j \in 1..Len(l) : i # j => l[i] # l[j]}

InitMeasure ==
    /\ doc = MeasureDoc
    /\ pre = MeasureDoc
    /\ last = [op |-> "none"]
    /\ ran = {}
    /\ steps = 0
    /\ files = <<>>

\* one call with any list of elements below the hole groups; the bounding-box
\* measurement inside the try block either returns or raises
MeasureElements(elements, raises) ==
    /\ elements # <<>>
    /\ steps < MaxCalls
    /\ steps' = steps + 1
    /\ doc' = MeasureElementsViaTempGroup(doc, elements, TempGroupId(elements))
    /\ pre' = doc
    /\ last' = [op |-> "measure", elements |-> elements, raised |-> raises]
    /\ UNCHANGED <<ran, files>>

\* one call through the Auto-Place adapter
MeasureTerrain(hole_num) ==
    \E hole_group \in {FirstWhere(Iter(doc, Root), LAMBDA n : doc[n].label = Name("hole", hole_num))} :
        /\ hole_group # None
        /\ steps < MaxCalls
        /\ steps' = steps + 1
        /\ doc' = MeasureTerrainViaTempGroup(doc, hole_group, hole_num)
        /\ pre' = doc
        /\ last' = [op |-> "measure_terrain",
                    elements |-> TerrainElements(doc, hole_group, hole_num), raised |-> FALSE]
        /\ UNCHANGED <<ran, files>>

Measurable(d) == {n \in DOMAIN d : GetParent(d, n) \notin {None, Root}}

NextMeasure ==
    \/ \E elements \in DistinctLists(Measurable(doc), MaxMeasured), raises \in BOOLEAN :
          MeasureElements(elements, raises)
    \/ \E hole_num \in {1, 2} : MeasureTerrain(hole_num)

SpecMeasure == InitMeasure /\ [][NextMeasure]_vars

SameChildOrder(before, after) ==
    /\ DOMAIN after = DOMAIN before
    /\ \A n \in DOMAIN before : after[n].kids = before[n].kids

\* C1: after measure_elements_via_temp_group returns or raises, every element
\* is a child of its original parent at its original index, every parent's
\* child order is what it was, and the temporary group is gone
C1_ElementsRestored ==
    last.op = "measure" =>
        /\ SameChildOrder(pre, doc)
        /\ GetElementById(doc, TempGroupId(last.elements)) = None

\* the same through the Auto-Place adapter, which lists the elements in child order
C1_TerrainRestored ==
    last.op = "measure_terrain" => SameChildOrder(pre, doc)

----------------------------------------------------------------------------
(* Specification SpecGroup: Group Hole runs on flattened documents.        *)

MaxSelected == 2        \* most elements in one selection
MaxGroupRuns == 1       \* Group Hole runs in one behaviour

\* the hole numbers the runs are given: the ends of the option's range
HoleNumbers == {1, 18}

Shape(tag, cat, pts, tr) ==
    [Element(tag, NoName, NoName, <<>>) EXCEPT !.cat = cat, !.pts = pts, !.tr = tr]

\* green outlines: a triangle, a square, three collinear points, two points
Triangle == << <<0, 0>>, <<4, 0>>, <<0, 2>> >>
GreenShapes ==
    { Triangle,
      << <<0, 0>>, <<4, 0>>, <<4, 4>>, <<0, 4>> >>,
      << <<0, 0>>, <<2, 2>>, <<4, 4>> >>,
      << <<0, 0>>, <<4, 2>> >> }

\* the transform Flatten SVG leaves on an element: none, or what it composed
\* from the groups the element was taken out of
GreenShifts == {Identity, <<6, 3, 1>>}

\* the yardage-line template: none, or a hidden group somewhere on the
\* canvas, or a hidden group with nothing measurable in it
Templates == {"none", "at_origin", "moved", "empty"}

TemplateElement(t) ==
    [Group(Word("yardage_template"), Word("yardage_lines"), <<>>) EXCEPT
        !.display = "none",
        !.pts = IF t = "empty" THEN <<>> ELSE << <<0, 0>>, <<2, 4>> >>,
        !.tr  = IF t = "moved" THEN <<-5, 7, 1>> ELSE Identity]

\* a document as Flatten SVG leaves it, plus the template the user added:
\* root: [defs] [template] greens(7, 8) fairways(9) bunkers(10) [other(trees(12), mapping_lines(14))]
GroupDoc(hasDefs, t, hasOther, shape, shift) ==
    Collect(
        (0 :> Element("svg", NoName, NoName,
                      (IF hasDefs THEN <<1>> ELSE <<>>) \o (IF t # "none" THEN <<2>> ELSE <<>>)
                      \o <<3, 4, 5>> \o (IF hasOther THEN <<6>> ELSE <<>>))) @@
        (1 :> Element("defs", NoName, NoName, <<>>)) @@
        (2 :> TemplateElement(t)) @@
        (3 :> Group(NoName, Word("greens"), <<7, 8>>)) @@
        (4 :> Group(NoName, Word("fairways"), <<9>>)) @@
        (5 :> Group(NoName, Word("bunkers"), <<10>>)) @@
        (6 :> Group(NoName, Word("other"), <<11, 13>>)) @@
        (7 :> Shape("path", "green", shape, shift)) @@
        (8 :> Shape("ellipse", "green", << <<10, 10>>, <<14, 12>> >>, Identity)) @@
        (9 :> Shape("path", "fairway", << <<0, 0>>, <<9, 0>>, <<9, 9>> >>, Identity)) @@
        (10 :> Shape("path", "bunker", << <<1, 1>>, <<2, 1>>, <<2, 2>> >>, Identity)) @@
        (11 :> Group(NoName, Word("trees"), <<12>>)) @@
        (12 :> Shape("path", "tree", << <<7, 7>>, <<8, 7>>, <<8, 8>> >>, Identity)) @@
        (13 :> Group(NoName, Word("mapping_lines"), <<14>>)) @@
        (14 :> Shape("path", "mapping_line", << <<0, 0>>, <<9, 9>> >>, Identity)))

GroupDocs ==
    {GroupDoc(TRUE, "at_origin", TRUE, shape, shift) : shape \in GreenShapes, shift \in GreenShifts}
    \cup {GroupDoc(TRUE, t, TRUE, Triangle, Identity) : t \in Templates}
    \cup {GroupDoc(hasDefs, "at_origin", hasOther, Triangle, Identity) :
            hasDefs \in BOOLEAN, hasOther \in BOOLEAN}

\* what the user can select for a hole: the shapes Flatten SVG sorted into
\* the root-level category groups
CategoryLabels == {"greens", "fairways", "bunkers", "trees", "water", "paths"}
Selectable(d) ==
    {n \in DOMAIN d :
        /\ d[n].tag \in {"path", "ellipse"}
        /\ GetParent(d, n) # None
        /\ d[GetParent(d, n)].label[1] \in CategoryLabels
        /\ \/ GetParent(d, GetParent(d, n)) = Root
           \/ GetParent(d, GetParent(d, n)) = FindRootOtherGroup(d)}

Selections(d, n) == DistinctLists(Selectable(d), n)

InitGroup ==
    /\ doc \in GroupDocs
    /\ pre = doc
    /\ last = [op |-> "none"]
    /\ ran = {}
    /\ steps = 0
    /\ files = <<>>

NextGroup ==
    /\ steps < MaxGroupRuns
    /\ \E selected \in Selections(doc, MaxSelected), hole_num \in HoleNumbers,
          yardage_line_group \in {NoName, Word("yardage_template")} :
            GroupHole(hole_num, selected, yardage_line_group)

SpecGroup == InitGroup /\ [][NextGroup]_vars

----------------------------------------------------------------------------
(* Group Hole: what a run leaves behind *)

GroupHoleDone == last.op = "group_hole" /\ last.error = ""

\* a green's vertices as they lie on the canvas: moved by the green's own
\* transform (the hole group and the root carry none)
CanvasPoints(d, e) ==
    [i \in 1..Len(d[e].pts) |-> <<d[e].pts[i][1] + d[e].tr[1], d[e].pts[i][2] + d[e].tr[2]>>]

RECURSIVE AllCanvasPoints(_, _)
AllCanvasPoints(d, elements) ==
    IF elements = <<>> THEN <<>>
    ELSE (IF d[Head(elements)].tag = "path" THEN CanvasPoints(d, Head(elements)) ELSE <<>>)
         \o AllCanvasPoints(d, Tail(elements))

\* the centroid of the greens where they are drawn
CanvasCentroid(d, elements) ==
    IF Len(AllCanvasPoints(d, elements)) >= 3
    THEN PolygonCentroid(AllCanvasPoints(d, elements))
    ELSE BoxCentreMean(d, elements)

\* C9: after Group Hole with a non-empty selection and a template present,
\* the hole group holds a visible copy of the template whose box centre is at
\* the centroid of the hole's green on the canvas, and the template is unmodified
C9_YardageLinesOnGreen ==
    (GroupHoleDone /\ last.template # None) =>
        /\ last.clone \in Range(doc[last.hole].kids)
        /\ doc[last.clone].display = "inline"
        /\ doc[last.clone].visibility = "visible"
        /\ (last.greens # <<>> /\ HasBoundingBox(doc, last.clone)) =>
              VEq(BoxCentre(doc, last.clone), CanvasCentroid(doc, last.greens))
        /\ doc[last.template] = pre[last.template]
        /\ GetParent(doc, last.template) = GetParent(pre, last.template)

\* the copy is visible and sits on the centroid computed from the greens' own
\* path coordinates, and the template is unmodified
C9_YardageLinesOnLocalCentroid ==
    (GroupHoleDone /\ last.template # None) =>
        /\ last.clone \in Range(doc[last.hole].kids)
        /\ doc[last.clone].display = "inline"
        /\ doc[last.clone].visibility = "visible"
        /\ (last.greens # <<>> /\ HasBoundingBox(doc, last.clone)) =>
              VEq(BoxCentre(doc, last.clone), CalculateCentroid(pre, last.greens))
        /\ doc[last.template] = pre[last.template]
        /\ GetParent(doc, last.template) = GetParent(pre, last.template)

\* the rank of a child of a hole group in the documented z-order
ChildRank(d, n, hole_num) ==
    IF IsGroup(d, n) /\ d[n].label = Word("other") THEN 1
    ELSE IF IsGroup(d, n) /\ d[n].label = Word("bunkers") THEN 2
    ELSE IF IsGroup(d, n) /\ d[n].label = Word("fairways") THEN 3
    ELSE IF d[n].id[1] = "green" /\ d[n].id[2] = hole_num THEN 4
    ELSE IF IsGroup(d, n) /\ HasYardage(d[n].label) THEN 5
    ELSE 0

WithRank(d, hole, hole_num, r) ==
    SelectSeq(d[hole].kids, LAMBDA n : ChildRank(d, n, hole_num) = r)

\* the elements of a category in the selection, as the document showed them
\* before the run
SelectedOf(cats) == SelectSeq(last.selected, LAMBDA e : pre[e].cat \in cats)

RootOtherHasContent(d) ==
    /\ FindRootOtherGroup(d) # None
    /\ \E c \in Range(d[FindRootOtherGroup(d)].kids) :
          ~(IsGroup(d, c) /\ d[c].label = Word("mapping_lines"))

TemplatePresent(d) == \E n \in DOMAIN d : IsGroup(d, n) /\ HasYardage(d[n].label)

TerrainShapes(d) == {n \in DOMAIN d : d[n].cat \in {"green", "fairway", "bunker"}}

\* C10: after Group Hole with a non-empty selection the new hole_NN group is
\* the last child of the root; its children are other, bunkers, fairways (each
\* only when non-empty), then the greens with ids green_NN (or green_NN_01,
\* green_NN_02, ...), then the yardage-line copy when there is a template; the
\* selected elements are moved into the hole group, not duplicated
C10_HoleGroupLayout ==
    GroupHoleDone =>
        LET h  == last.hole
            N  == last.hole_number
            ks == doc[h].kids
            greens == WithRank(doc, h, N, 4)
        IN  /\ doc[Root].kids[Len(doc[Root].kids)] = h
            /\ doc[h].label = Name("hole", N)
            /\ \A i \in 1..Len(ks) : ChildRank(doc, ks[i], N) # 0
            /\ \A i, j \in 1..Len(ks) :
                  i < j => ChildRank(doc, ks[i], N) <= ChildRank(doc, ks[j], N)
            /\ \A r \in {1, 2, 3, 5} : Len(WithRank(doc, h, N, r)) <= 1
            /\ \A r \in {1, 2, 3} : \A g \in Range(WithRank(doc, h, N, r)) : doc[g].kids # <<>>
            /\ (Len(WithRank(doc, h, N, 1)) = 1) <=>
                  (SelectedOf({"water", "tree", "other", "mapping_line", "path_line"}) # <<>>
                   \/ RootOtherHasContent(pre))
            /\ \A g \in Range(WithRank(doc, h, N, 2)) : doc[g].kids = SelectedOf({"bunker"})
            /\ (Len(WithRank(doc, h, N, 2)) = 1) <=> (SelectedOf({"bunker"}) # <<>>)
            /\ \A g \in Range(WithRank(doc, h, N, 3)) : doc[g].kids = SelectedOf({"fairway"})
            /\ (Len(WithRank(doc, h, N, 3)) = 1) <=> (SelectedOf({"fairway"}) # <<>>)
            /\ greens = SelectedOf({"green"})
            /\ Len(greens) = 1 => doc[greens[1]].id = Name("green", N)
            /\ Len(greens) > 1 => \A i \in 1..Len(greens) : doc[greens[i]].id = <<"green", N, i>>
            /\ (Len(WithRank(doc, h, N, 5)) = 1) <=> TemplatePresent(pre)
            /\ \A e \in Range(SelectedOf({"water", "tree", "other", "mapping_line", "path_line"})) :
                  \E g \in Range(WithRank(doc, h, N, 1)) : e \in Range(doc[g].kids)
            /\ Cardinality(TerrainShapes(doc)) = Cardinality(TerrainShapes(pre))

\* a run that built other, fairways, a green and the yardage-line copy
C10_Witness ==
    /\ GroupHoleDone
    /\ Len(doc[last.hole].kids) = 4
    /\ Len(WithRank(doc, last.hole, last.hole_number, 1)) = 1
    /\ Len(WithRank(doc, last.hole, last.hole_number, 3)) = 1
    /\ Len(WithRank(doc, last.hole, last.hole_number, 5)) = 1

----------------------------------------------------------------------------
(* auto_place_holes.py: Auto-Place Holes (Stages 3 to 5) *)

FirstHole == 1      \* for hole_num in range(1, 19)
LastHole == 18

\* _find_hole_group (the same in auto_place_holes.py and add_hole_label.py):
\* a group by id, else the first group in document order with that label
FindHoleGroup(d, hole_id) ==
    Bind(GetElementById(d, hole_id), LAMBDA element :
        IF element # None /\ IsGroup(d, element) THEN element
        ELSE FirstWhere(Iter(d, Root), LAMBDA e : IsGroup(d, e) /\ d[e].label = hole_id))

\* id == green_NN or id.startswith(green_NN)
IsGreenOf(d, child, hole_num) == d[child].id[1] = "green" /\ d[child].id[2] = hole_num

\* 'green' in child_id.lower()
GreenIds == {"green", "green_bottom"}

\* AutoPlaceHoles._find_green_element
FindGreenElement(d, hole_group, hole_num) ==
    Bind(FirstWhere(d[hole_group].kids, LAMBDA c : IsGreenOf(d, c, hole_num)), LAMBDA green :
        IF green # None THEN green
        ELSE FirstWhere(d[hole_group].kids, LAMBDA c : d[c].id[1] \in GreenIds))

\* the canvas points of the shapes in a subtree, each moved by its own
\* transform (terrain shapes carry whole-number translations)
RECURSIVE ShapePoints(_, _)
ShapePoints(d, ns) ==
    IF ns = <<>> THEN {}
    ELSE {<<d[Head(ns)].pts[i][1] + d[Head(ns)].tr[1] \div d[Head(ns)].tr[3],
            d[Head(ns)].pts[i][2] + d[Head(ns)].tr[2] \div d[Head(ns)].tr[3]>> :
                i \in 1..Len(d[Head(ns)].pts)}
         \cup ShapePoints(d, d[Head(ns)].kids) \cup ShapePoints(d, Tail(ns))

\* AutoPlaceHoles._get_terrain_bounding_box: whether it returns a box.  It
\* raises when no child has the id green_NN exactly, when nothing has a
\* bounding box, and when the box has no width or no height
HasTerrainBoundingBox(d, hole_group, hole_num) ==
    /\ \E c \in Range(d[hole_group].kids) : d[c].id = Name("green", hole_num)
    /\ Bind(ShapePoints(d, SelectSeq(d[hole_group].kids, LAMBDA c :
                \/ d[c].id = Name("green", hole_num)
                \/ IsGroup(d, c) /\ d[c].label \in {Word("fairways"), Word("bunkers")})),
            LAMBDA P :
                /\ P # {}
                /\ Max({p[1] : p \in P}) - Min({p[1] : p \in P}) > 0
                /\ Max({p[2] : p \in P}) - Min({p[2] : p \in P}) > 0)

\* AutoPlaceHoles._process_hole: the transform is cleared first; a hole
\* without a green or without a terrain box raises (ok = FALSE) and keeps the
\* cleared transform; otherwise the terrain is measured three times through
\* the temp group and the hole gets its rotation, scale and translation,
\* recorded as placed (the matrix itself is not represented)
ProcessHole(d, hole_group, hole_num) ==
    Bind([d EXCEPT ![hole_group].tr = Identity, ![hole_group].placed = FALSE], LAMBDA d1 :
        IF \/ FindGreenElement(d1, hole_group, hole_num) = None
           \/ ~HasBoundingBox(d1, FindGreenElement(d1, hole_group, hole_num))
           \/ ~HasTerrainBoundingBox(d1, hole_group, hole_num)
        THEN [doc |-> d1, ok |-> FALSE]
        ELSE Bind(MeasureTerrainViaTempGroup(d1, hole_group, hole_num), LAMBDA d2 :
             Bind(MeasureTerrainViaTempGroup(d2, hole_group, hole_num), LAMBDA d3 :
             Bind(MeasureTerrainViaTempGroup(d3, hole_group, hole_num), LAMBDA d4 :
                [doc |-> [d4 EXCEPT ![hole_group].placed = TRUE], ok |-> TRUE]))))

\* a pass that leaves a hole without a hole group out of both lists
ProcessHolePassSilent(state, hole_num) ==
    Bind(FindHoleGroup(state.doc, Name("hole", hole_num)), LAMBDA hole_group :
        IF hole_group = None
        THEN state
        ELSE Bind(ProcessHole(state.doc, hole_group, hole_num), LAMBDA r :
                IF r.ok
                THEN [doc |-> r.doc, processed |-> Append(state.processed, hole_num),
                      failed |-> state.failed]
                ELSE [doc |-> r.doc, processed |-> state.processed,
                      failed |-> Append(state.failed, hole_num)]))

\* effect, lines 102-119: one pass of the loop; state is the document with
\* processed_holes and failed_holes
ProcessHolePass(state, hole_num) ==
    Bind(FindHoleGroup(state.doc, Name("hole", hole_num)), LAMBDA hole_group :
        IF hole_group = None
        THEN [state EXCEPT !.failed = Append(@, hole_num)]
        ELSE Bind(ProcessHole(state.doc, hole_group, hole_num), LAMBDA r :
                IF r.ok
                THEN [doc |-> r.doc, processed |-> Append(state.processed, hole_num),
                      failed |-> state.failed]
                ELSE [doc |-> r.doc, processed |-> state.processed,
                      failed |-> Append(state.failed, hole_num)]))

\* effect, lines 102-119: the passes for the holes first..final, in turn
RECURSIVE ProcessHoles(_, _, _)
ProcessHoles(state, first, final) ==
    IF first = final THEN ProcessHolePass(state, first)
    ELSE Bind(ProcessHoles(state, first, (first + final) \div 2), LAMBDA so_far :
            ProcessHoles(so_far, ((first + final) \div 2) + 1, final))

FindLabelled(d, label) ==
    FirstWhere(Iter(d, Root), LAMBDA e : IsGroup(d, e) /\ d[e].label = Word(label))

\* effect, lines 121-139: the processed holes are appended to the 'top' group
RECURSIVE MoveToTop(_, _, _)
MoveToTop(d, processed, top_group) ==
    IF processed = <<>> \/ top_group = None THEN d
    ELSE Bind(FindHoleGroup(d, Name("hole", Head(processed))), LAMBDA hole_group :
         Bind(IF hole_group = None THEN d ELSE AppendTo(d, top_group, hole_group), LAMBDA e :
            MoveToTop(e, Tail(processed), top_group)))

\* effect, lines 141-160: one pass of the loop
MoveOtherLastPass(d, hole_num) ==
    Bind(FindHoleGroup(d, Name("hole", hole_num)), LAMBDA hole_group :
        IF hole_group = None THEN d
        ELSE Bind(FirstWhere(d[hole_group].kids,
                             LAMBDA c : IsGroup(d, c) /\ d[c].label = Word("other")),
                  LAMBDA other_group :
                IF other_group = None THEN d ELSE AppendTo(d, hole_group, other_group)))

\* effect, lines 141-160: in every hole group first..final the 'other' group
\* goes last
RECURSIVE MoveOtherLast(_, _, _)
MoveOtherLast(d, first, final) ==
    IF first = final THEN MoveOtherLastPass(d, first)
    ELSE Bind(MoveOtherLast(d, first, (first + final) \div 2), LAMBDA e :
            MoveOtherLast(e, ((first + final) \div 2) + 1, final))

\* AutoPlaceHoles._find_green_with_parent: the first green of the first group
\* labelled hole_NN that has one
FindGreenWithParent(d, hole_number) ==
    Bind(SelectSeq(Iter(d, Root), LAMBDA e :
            /\ IsGroup(d, e) /\ d[e].label = Name("hole", hole_number)
            /\ \E c \in Range(d[e].kids) : IsGreenOf(d, c, hole_number)), LAMBDA groups :
        IF groups = <<>> THEN None
        ELSE FirstWhere(d[Head(groups)].kids, LAMBDA c : IsGreenOf(d, c, hole_number)))

\* effect, lines 174-198: a copy of every hole's green, with id and label
\* green_NN_bottom, goes into 'bottom' before greens_guide (at the end when
\* there is no greens_guide); _position_and_scale_green measures the copy
\* alone through the temp group and gives it its scale and translation
CopyGreenPass(state, bottom_group, hole_num) ==
    Bind(FindGreenWithParent(state.doc, hole_num), LAMBDA green :
        IF green = None THEN state
        ELSE Bind(Copy(state.doc, green), LAMBDA c :
             Bind([c.doc EXCEPT ![c.node].id = Name("green_bottom", hole_num),
                                ![c.node].label = Name("green_bottom", hole_num),
                                ![c.node].placed = TRUE], LAMBDA d1 :
             Bind(IF state.insertion_index # None
                  THEN InsertInto(d1, bottom_group, state.insertion_index, c.node)
                  ELSE AppendTo(d1, bottom_group, c.node), LAMBDA d2 :
                [doc |-> MeasureElementsViaTempGroup(d2, <<c.node>>,
                                                     Name("_temp_green_measure", hole_num)),
                 insertion_index |-> IF state.insertion_index # None
                                     THEN state.insertion_index + 1 ELSE None]))))

\* the passes of the loop at lines 174-198 for the holes first..final, in
\* turn; state is the document with insertion_index
RECURSIVE CopyGreens(_, _, _, _)
CopyGreens(state, bottom_group, first, final) ==
    IF first = final THEN CopyGreenPass(state, bottom_group, first)
    ELSE Bind(CopyGreens(state, bottom_group, first, (first + final) \div 2), LAMBDA so_far :
            CopyGreens(so_far, bottom_group, ((first + final) \div 2) + 1, final))

\* effect, lines 162-200 (Stage 4)
ScaleGreens(d) ==
    Bind(FindLabelled(d, "bottom"), LAMBDA bottom_group :
        IF bottom_group = None THEN d
        ELSE Bind(FirstWhere(d[bottom_group].kids,
                             LAMBDA c : IsGroup(d, c) /\ d[c].label = Word("greens_guide")),
                  LAMBDA guide :
                CopyGreens([doc |-> d,
                            insertion_index |-> IF guide = None THEN None
                                                ELSE IndexOf(d[bottom_group].kids, guide)],
                           bottom_group, FirstHole, LastHole).doc))

\* AutoPlaceHoles.effect.  Stage 5 sets stroke widths only, which the
\* document records here do not carry.
AutoPlaceRun(d) ==
    Bind(ProcessHoles([doc |-> d, processed |-> <<>>, failed |-> <<>>], FirstHole, LastHole),
         LAMBDA r :
    Bind(MoveToTop(r.doc, r.processed, FindLabelled(r.doc, "top")), LAMBDA d1 :
    Bind(MoveOtherLast(d1, FirstHole, LastHole), LAMBDA d2 :
    Bind(ScaleGreens(d2), LAMBDA d3 :
        [doc |-> Collect(d3), processed |-> r.processed, failed |-> r.failed]))))

AutoPlaceHoles ==
    /\ pre' = doc
    /\ ran' = ran \cup {"auto_place_holes"}
    /\ steps' = steps + 1
    /\ UNCHANGED files
    /\ \E r \in {AutoPlaceRun(doc)} :
        /\ doc' = r.doc
        /\ last' = [op |-> "auto_place_holes", processed |-> r.processed, failed |-> r.failed]

----------------------------------------------------------------------------
(* add_hole_label.py: Add Hole Label *)

MinPar == 3
MaxPar == 6
MinFontSize == 4
MaxFontSize == 72

\* a faulty check: the par is not validated
RejectionWithoutPar(o) ==
    IF ~(FirstHole <= o.hole_number /\ o.hole_number <= LastHole)
    THEN "Error: Hole number must be 1-18"
    ELSE IF ~(MinFontSize <= o.font_size /\ o.font_size <= MaxFontSize)
    THEN "Error: Font size must be 4-72pt"
    ELSE ""

\* effect, lines 589-602: the parameter checks, in the order of the code; the
\* message of the first one that fails, "" when all pass
Rejection(o) ==
    IF ~(FirstHole <= o.hole_number /\ o.hole_number <= LastHole)
    THEN "Error: Hole number must be 1-18"
    ELSE IF ~(MinPar <= o.par /\ o.par <= MaxPar) THEN "Error: Par must be 3-6"
    ELSE IF ~(MinFontSize <= o.font_size /\ o.font_size <= MaxFontSize)
    THEN "Error: Font size must be 4-72pt"
    ELSE ""

\* existing = root.getElementById(id); existing.getparent().remove(existing)
RemoveById(d, id) ==
    Bind(GetElementById(d, id), LAMBDA existing :
        IF existing = None \/ GetParent(d, existing) = None THEN d
        ELSE Remove(d, GetParent(d, existing), existing))

\* new elements, one after the other; the document and their nodes
RECURSIVE WithNewAll(_, _, _)
WithNewAll(d, recs, nodes) ==
    IF recs = <<>> THEN [doc |-> d, nodes |-> nodes]
    ELSE Bind(WithNew(d, Head(recs)), LAMBDA e :
            WithNewAll(e, Tail(recs), Append(nodes, Fresh(d))))

\* AddHoleLabel._create_hole_label_group: a group with id and label
\* hole_label_NN holding the circle, the hole number and the par text.  The
\* unit conversions are of class constants and do not fail.
CreateHoleLabelGroup(d, hole_num, par) ==
    Bind(WithNewAll(d, <<Element("circle", NoName, NoName, <<>>),
                         Group(NoName, Name("hole_number", hole_num), <<>>),
                         Group(NoName, Name("par", par), <<>>)>>, <<>>), LAMBDA c :
        [doc |-> WithNew(c.doc, Group(Name("hole_label", hole_num), Name("hole_label", hole_num),
                                      c.nodes)),
         node |-> Fresh(c.doc)])

\* the tees that count: yardage > 0 and a name that is not blank
ValidTees(tees) == SelectSeq(tees, LAMBDA t : t[2] > 0 /\ t[1] # "")

\* the glyph groups of the tee lines: name, colon and yardage per tee
RECURSIVE TeeLines(_)
TeeLines(tees) ==
    IF tees = <<>> THEN <<>>
    ELSE <<Group(NoName, Name(Head(tees)[1], 0), <<>>), Group(NoName, Word(":"), <<>>),
           Group(NoName, Name("yardage", Head(tees)[2]), <<>>)>> \o TeeLines(Tail(tees))

\* AddHoleLabel._create_tee_yardages: None when no tee counts, else a group
\* with id and label tee_yardages_NN
CreateTeeYardages(d, hole_num, tees) ==
    IF ValidTees(tees) = <<>> THEN [doc |-> d, node |-> None]
    ELSE Bind(WithNewAll(d, TeeLines(ValidTees(tees)), <<>>), LAMBDA c :
            [doc |-> WithNew(c.doc, Group(Name("tee_yardages", hole_num),
                                          Name("tee_yardages", hole_num), c.nodes)),
             node |-> Fresh(c.doc)])

\* the last element of a sequence of nodes that satisfies a test, or None
LastWhere(s, Test(_)) ==
    Bind(SelectSeq(s, Test), LAMBDA hits : IF hits = <<>> THEN None ELSE hits[Len(hits)])

Opt(n) == IF n = None THEN <<>> ELSE <<n>>

IsLabelled(d, n, label) == IsGroup(d, n) /\ d[n].label = Word(label)
IsYardageGroup(d, n) ==
    /\ IsGroup(d, n)
    /\ d[n].label[1] \notin {"other", "bunkers", "fairways"}
    /\ HasYardage(d[n].label)

\* AddHoleLabel._ensure_geo_child_order: yardage groups found inside 'other'
\* are taken out of it; the children are put in the order other, bunkers,
\* fairways, greens, yardage groups, everything else
EnsureGeoChildOrder(d, geo_group, hole_num) ==
    LET kids     == d[geo_group].kids
        other    == LastWhere(kids, LAMBDA c : IsLabelled(d, c, "other"))
        bunkers  == LastWhere(kids, LAMBDA c : IsLabelled(d, c, "bunkers"))
        fairways == LastWhere(kids, LAMBDA c : IsLabelled(d, c, "fairways"))
        greens   == SelectSeq(kids, LAMBDA c : ~IsGroup(d, c) /\ IsGreenOf(d, c, hole_num))
        migrate  == IF other = None THEN <<>>
                    ELSE SelectSeq(d[other].kids, LAMBDA c : IsGroup(d, c) /\ HasYardage(d[c].label))
        yardage  == SelectSeq(kids, LAMBDA c : IsYardageGroup(d, c)) \o migrate
        rest     == SelectSeq(kids, LAMBDA c :
                        IF IsGroup(d, c)
                        THEN d[c].label[1] \notin {"other", "bunkers", "fairways"} /\ ~HasYardage(d[c].label)
                        ELSE ~IsGreenOf(d, c, hole_num))
        expected == Opt(other) \o Opt(bunkers) \o Opt(fairways) \o greens \o yardage \o rest
    IN  IF other = None
        THEN [d EXCEPT ![geo_group].kids = expected]
        ELSE [d EXCEPT ![other].kids = SelectSeq(@, LAMBDA c : ~(IsGroup(d, c) /\ HasYardage(d[c].label))),
                       ![geo_group].kids = expected]

\* _generate_terrain_mask, lines 283-306: the mask goes before the (last)
\* bunkers group, else after the (first) other group, else first
InsertMask(d, geo_group, mask) ==
    Bind(LastWhere(d[geo_group].kids, LAMBDA c : IsLabelled(d, c, "bunkers")), LAMBDA bunkers :
    Bind(FirstWhere(d[geo_group].kids, LAMBDA c : IsLabelled(d, c, "other")), LAMBDA other :
        IF bunkers # None THEN InsertInto(d, geo_group, IndexOf(d[geo_group].kids, bunkers), mask)
        ELSE IF other # None THEN InsertInto(d, geo_group, IndexOf(d[geo_group].kids, other) + 1, mask)
        ELSE InsertInto(d, geo_group, 0, mask)))

RECURSIVE SetClip(_, _, _)
SetClip(d, ns, clip_id) ==
    IF ns = <<>> THEN d
    ELSE Bind([d EXCEPT ![Head(ns)].clip = clip_id], LAMBDA e : SetClip(e, Tail(ns), clip_id))

\* _generate_terrain_mask, lines 308-376: when the geo group has yardage
\* groups, a new clipPath yardage_clip_NN replaces the old one in defs and
\* every yardage group is clipped by it
ClipYardageLines(d, geo_group, hole_num) ==
    Bind(SelectSeq(d[geo_group].kids, LAMBDA c : IsGroup(d, c) /\ HasYardage(d[c].label)),
         LAMBDA yardage_groups :
        IF yardage_groups = <<>> THEN d
        ELSE Bind(EnsureDefs(d), LAMBDA d1 :
             Bind(FindClipPath(d1, Name("yardage_clip", hole_num)), LAMBDA existing_clip :
             Bind(IF existing_clip = None THEN d1
                  ELSE Remove(d1, GetParent(d1, existing_clip), existing_clip), LAMBDA d2 :
             Bind(WithNew(d2, Element("path", NoName, NoName, <<>>)), LAMBDA d3 :
             Bind(WithNew(d3, Element("clipPath", Name("yardage_clip", hole_num), NoName,
                                      <<Fresh(d2)>>)), LAMBDA d4 :
             Bind(AppendTo(d4, FindDefs(d1), Fresh(d3)), LAMBDA d5 :
                SetClip(d5, yardage_groups, Name("yardage_clip", hole_num)))))))))

\* AddHoleLabel._generate_terrain_mask: only the children of the geo group
\* and defs change.  The transforms it inverts are the ones Stage 3 builds
\* (a rotation, a positive scale, a translation), so it does not raise.
GenerateTerrainMask(d, hole_num, geo_group) ==
    Bind(FirstWhere(d[geo_group].kids, LAMBDA c : d[c].id = Name("terrain_mask", hole_num)),
         LAMBDA existing_mask :
    Bind(IF existing_mask = None THEN d ELSE Remove(d, geo_group, existing_mask), LAMBDA d1 :
    Bind(EnsureGeoChildOrder(d1, geo_group, hole_num), LAMBDA d2 :
    Bind(WithNew(d2, Element("rect", Name("terrain_mask", hole_num), NoName, <<>>)), LAMBDA d3 :
    Bind(FirstWhere(d3[geo_group].kids, LAMBDA c : d3[c].id = Name("clip_rect", hole_num)),
         LAMBDA clip_rect :
    Bind(IF clip_rect = None THEN d3 ELSE Remove(d3, geo_group, clip_rect), LAMBDA d4 :
    Bind(InsertMask(d4, geo_group, Fresh(d2)), LAMBDA d5 :
        ClipYardageLines(d5, geo_group, hole_num))))))))

\* effect, lines 667-693: the hole group becomes geo_NN (id and label) and a
\* new hole_NN wrapper (id and label) takes its place in its parent
Restructure(d, hole_group, hole_num) ==
    Bind(WithNew([d EXCEPT ![hole_group].id = Name("geo", hole_num),
                           ![hole_group].label = Name("geo", hole_num)],
                 Group(Name("hole", hole_num), Name("hole", hole_num), <<>>)), LAMBDA d1 :
        [doc |-> InsertInto(Remove(d1, GetParent(d, hole_group), hole_group),
                            GetParent(d, hole_group),
                            IndexOf(d[GetParent(d, hole_group)].kids, hole_group), Fresh(d)),
         wrapper |-> Fresh(d)])

\* a faulty attachment: every run appends the geo group as the first run does
AttachAsOnFirstRun(d, wrapper_group, hole_group, tee_yardages, label_group, already_restructured) ==
    AppendAll(d, wrapper_group, <<hole_group>> \o Opt(tee_yardages) \o <<label_group>>)

\* effect, lines 721-739: geo_NN (on the first run), the tee yardages when
\* there are any, the label
AttachLabels(d, wrapper_group, hole_group, tee_yardages, label_group, already_restructured) ==
    IF already_restructured
    THEN AppendAll(d, wrapper_group, Opt(tee_yardages) \o <<label_group>>)
    ELSE AppendAll(d, wrapper_group, <<hole_group>> \o Opt(tee_yardages) \o <<label_group>>)

\* effect, lines 634-747, once the hole group is found: hole_group is geo_NN
\* when the hole is already restructured and the hole_NN group when not
LabelHole(d, o, hole_group, wrapper_group, already_restructured) ==
    Bind(RemoveById(d, Name("hole_label", o.hole_number)), LAMBDA d1 :
    Bind(CreateHoleLabelGroup(d1, o.hole_number, o.par), LAMBDA label :
    Bind(CreateTeeYardages(label.doc, o.hole_number, o.tees), LAMBDA tee :
    Bind(IF tee.node # None THEN RemoveById(tee.doc, Name("tee_yardages", o.hole_number))
         ELSE tee.doc, LAMBDA d2 :
    Bind(IF already_restructured THEN [doc |-> d2, wrapper |-> wrapper_group]
         ELSE Restructure(d2, hole_group, o.hole_number), LAMBDA r :
    Bind(AttachLabels(r.doc, r.wrapper, hole_group, tee.node, label.node, already_restructured),
         LAMBDA d3 :
    Bind(GenerateTerrainMask(d3, o.hole_number, hole_group), LAMBDA d4 :
        [doc |-> Collect(d4), error |-> "", added |-> TRUE, wrapper |-> r.wrapper,
         geo |-> hole_group, label |-> label.node, tee |-> tee.node])))))))

Refused(d, error) ==
    [doc |-> d, error |-> error, added |-> FALSE, wrapper |-> None, geo |-> None,
     label |-> None, tee |-> None]

\* AddHoleLabel.effect; o holds the options.  The glyph library is that of a
\* font validate_font_family found on disk, so loading it succeeds.
AddHoleLabelRun(d, o) ==
    IF o.notebook = "list_fonts" THEN Refused(d, "")
    ELSE IF Rejection(o) # "" THEN Refused(d, Rejection(o))
    ELSE Bind(FindHoleGroup(d, Name("geo", o.hole_number)), LAMBDA geo_group :
         Bind(FindHoleGroup(d, Name("hole", o.hole_number)), LAMBDA hole_group :
            IF geo_group # None
            THEN IF hole_group = None THEN Refused(d, "Error: Inconsistent structure for hole")
                 ELSE LabelHole(d, o, geo_group, hole_group, TRUE)
            ELSE IF hole_group = None
                 THEN Refused(d, "Error: Hole group not found. Please run Stage 3 (Auto-Place Holes) before adding labels.")
                 ELSE LabelHole(d, o, hole_group, None, FALSE)))

AddHoleLabel(o) ==
    /\ pre' = doc
    /\ ran' = ran \cup {"add_hole_label"}
    /\ steps' = steps + 1
    /\ UNCHANGED files
    /\ \E r \in {AddHoleLabelRun(doc, o)} :
        /\ doc' = r.doc
        /\ last' = [op |-> "add_hole_label", options |-> o, error |-> r.error, added |-> r.added,
                    wrapper |-> r.wrapper, geo |-> r.geo, label |-> r.label, tee |-> r.tee]

----------------------------------------------------------------------------
(* Specification Spec: Auto-Place Holes and Add Hole Label (and one more   *)
(* Group Hole) run in any order on a document that has been through        *)
(* Flatten SVG and two Group Hole runs.                                    *)

MaxRuns == 3            \* tool runs in one behaviour

\* the page template ('top' and 'bottom' with its greens_guide), the yardage
\* template and what Flatten SVG made of the course:
\* root: defs, template, top, bottom(greens_guide), greens(7, 8, 9, 10),
\*       fairways(12), other(trees(15))
FlatDoc ==
    (0 :> Element("svg", NoName, NoName, <<1, 2, 3, 4, 6, 11, 13>>)) @@
    (1 :> Element("defs", NoName, NoName, <<>>)) @@
    (2 :> TemplateElement("at_origin")) @@
    (3 :> Group(NoName, Word("top"), <<>>)) @@
    (4 :> Group(NoName, Word("bottom"), <<5>>)) @@
    (5 :> Group(NoName, Word("greens_guide"), <<>>)) @@
    (6 :> Group(NoName, Word("greens"), <<7, 8, 9, 10>>)) @@
    (7 :> Shape("path", "green", Triangle, Identity)) @@
    (8 :> Shape("path", "green", Triangle, <<6, 3, 1>>)) @@
    (9 :> Shape("path", "green", Triangle, <<9, 3, 1>>)) @@
    (10 :> Shape("path", "green", Triangle, <<0, 9, 1>>)) @@
    (11 :> Group(NoName, Word("fairways"), <<12>>)) @@
    (12 :> Shape("path", "fairway", << <<0, 0>>, <<9, 0>>, <<9, 9>> >>, Identity)) @@
    (13 :> Group(NoName, Word("other"), <<14>>)) @@
    (14 :> Group(NoName, Word("trees"), <<15>>)) @@
    (15 :> Shape("path", "tree", << <<7, 7>>, <<8, 7>>, <<8, 8>> >>, Identity))

\* hole 1 grouped from a green and the fairway, hole 2 from two greens
GroupedDoc ==
    Bind(GroupHoleRun(FlatDoc, 1, <<7, 12>>, NoName), LAMBDA first :
        GroupHoleRun(first.doc, 2, <<8, 9>>, NoName).doc)

Init ==
    /\ doc = GroupedDoc
    /\ pre = doc
    /\ last = [op |-> "none"]
    /\ ran = {"flatten_svg", "group_hole"}
    /\ steps = 0
    /\ files = <<>>

\* the options of an Add Hole Label run
Options(notebook, hole_number, par, font_size, tees) ==
    [notebook |-> notebook, hole_number |-> hole_number, par |-> par,
     font_size |-> font_size, tees |-> tees]

\* the tee options: all yardages 0 (the default), or one tee given
TeeOptions == {<<>>, << <<"Blue", 325>> >>}

\* runs with valid parameters for a hole that is grouped (1, 2), one that is
\* not yet (3) and one that never is (18); runs with one parameter just
\* outside its range; a run from the List Fonts tab
LabelOptions ==
    {Options("label", h, 4, 6, t) : h \in {1, 2, 3}, t \in TeeOptions}
    \cup {Options("label", h, 4, 6, <<>>) : h \in {0, 18, 19}}
    \cup {Options("label", 1, p, 6, <<>>) : p \in {2, 3, 6, 7}}
    \cup {Options("label", 1, 4, f, <<>>) : f \in {3, 4, 72, 73}}
    \cup {Options("list_fonts", 1, 4, 6, <<>>)}

\* the one Group Hole run left to do: hole 3 from the green not yet grouped
GroupThird ==
    \E selected \in {<<>>, <<10>>} :
        /\ selected = <<>> \/ 10 \in Selectable(doc)
        /\ GroupHole(3, selected, NoName)

Next ==
    \/ steps < MaxRuns /\ AutoPlaceHoles
    \/ steps < MaxRuns /\ \E o \in LabelOptions : AddHoleLabel(o)
    \/ steps < MaxRuns /\ GroupThird

Spec == Init /\ [][Next]_vars

----------------------------------------------------------------------------
(* Add Hole Label: what a run leaves behind *)

LabelRun == last.op = "add_hole_label" /\ last.options.notebook = "label"

WithId(d, id) == {n \in DOMAIN d : d[n].id = id}

\* the groups that go by the name hole_NN, by id or by label
HoleGroups(d, hole_num) ==
    {n \in DOMAIN d : IsGroup(d, n) /\ (d[n].id = Name("hole", hole_num)
                                        \/ d[n].label = Name("hole", hole_num))}

SamePlace(before, b, after, a) ==
    /\ GetParent(after, a) = GetParent(before, b)
    /\ IndexOf(after[GetParent(after, a)].kids, a) = IndexOf(before[GetParent(before, b)].kids, b)

\* C2: after a successful Add Hole Label run for hole N, the first or a later
\* one, there is exactly one hole_NN wrapper, at the index the original hole
\* group had in its parent; its children are geo_NN, tee_yardages_NN if
\* present, hole_label_NN, one of each; only the first run renames the hole
\* group to geo_NN and wraps it
C2_WrapperStructure ==
    (LabelRun /\ last.added) =>
        LET N == last.options.hole_number
        IN  /\ Cardinality(HoleGroups(doc, N)) = 1
            /\ \A w \in HoleGroups(doc, N) :
                LET ks == doc[w].kids
                IN  /\ doc[w].id = Name("hole", N) /\ doc[w].label = Name("hole", N)
                    /\ Len(ks) \in {2, 3}
                    /\ doc[ks[1]].id = Name("geo", N) /\ doc[ks[1]].label = Name("geo", N)
                    /\ doc[ks[Len(ks)]].id = Name("hole_label", N)
                    /\ Len(ks) = 3 => doc[ks[2]].id = Name("tee_yardages", N)
                    /\ Cardinality(WithId(doc, Name("geo", N))) = 1
                    /\ Cardinality(WithId(doc, Name("hole_label", N))) = 1
                    /\ Cardinality(WithId(doc, Name("tee_yardages", N))) = Len(ks) - 2
                    /\ (Len(ks) = 3) <=> (\/ WithId(pre, Name("tee_yardages", N)) # {}
                                          \/ \E i \in 1..Len(last.options.tees) :
                                                last.options.tees[i][2] > 0)
                    /\ IF WithId(pre, Name("geo", N)) = {}
                       THEN /\ HoleGroups(pre, N) = {ks[1]}
                            /\ SamePlace(pre, ks[1], doc, w)
                       ELSE /\ HoleGroups(pre, N) = {w}
                            /\ WithId(pre, Name("geo", N)) = {ks[1]}
                            /\ pre[w].kids[1] = ks[1]
                            /\ SamePlace(pre, w, doc, w)

\* a later run for a hole that keeps the tee yardages of an earlier one
C2_Witness ==
    /\ LabelRun /\ last.added
    /\ WithId(pre, Name("geo", last.options.hole_number)) # {}
    /\ last.options.tees = <<>>
    /\ Len(doc[last.wrapper].kids) = 3

\* C3: Add Hole Label adds a label only when Auto-Place Holes has been run on
\* the document before; otherwise it reports an error and adds nothing
C3_LabelOnlyAfterAutoPlace ==
    (LabelRun /\ "auto_place_holes" \notin ran) =>
        /\ ~last.added
        /\ last.error # ""
        /\ doc = pre

\* C4: a run with a hole number outside 1..18, a par outside 3..6, a font
\* size outside 4..72 or no hole_NN / geo_NN group reports an error and leaves
\* the document exactly as it was
C4_RejectedRunChangesNothing ==
    (/\ LabelRun
     /\ \/ last.options.hole_number \notin 1..18
        \/ last.options.par \notin 3..6
        \/ last.options.font_size \notin 4..72
        \/ /\ HoleGroups(pre, last.options.hole_number) = {}
           /\ \A n \in DOMAIN pre : IsGroup(pre, n) =>
                 /\ pre[n].id # Name("geo", last.options.hole_number)
                 /\ pre[n].label # Name("geo", last.options.hole_number))
    => (last.error # "" /\ doc = pre)

\* a run with a bad par for a hole that already has its label
C4_Witness ==
    /\ LabelRun
    /\ last.options.par \notin 3..6
    /\ last.error # ""
    /\ WithId(doc, Name("hole_label", last.options.hole_number)) # {}


----------------------------------------------------------------------------
(* Export PDFs (export_pdfs.py, Stage 5).  A PDF file is a list of pages, a *)
(* page is a list of panels (one for a narrow page, two side by side for a *)
(* wide page) and a panel records which page configuration it was exported *)
(* for and which children of 'top' and 'bottom' were rendered.  A file     *)
(* name is <<kind, a, b>>: temp_narrow_{a}-{b}.pdf, temp_wide_{a}-{b}.pdf  *)
(* and yardage_book_{a}.pdf.                                               *)

RequiredHoles == 18     \* hole_XX children 'top' must have
RequiredGreens == 18    \* green_XX_bottom children 'bottom' must have
NarrowPages == 20       \* narrow pages a run exports
WidePages == 10         \* wide pages the booklets are made of

\* label.startswith("hole_"); hole_label_NN starts with hole_ as well
StartsWithHole(label) == label[1] \in {"hole", "hole_label"}

\* label.startswith("green_") and label.endswith("_bottom")
IsGreenBottomLabel(label) == label[1] = "green_bottom"

\* ExportPDFs._validate_document_structure
RootGroup(d, name) ==
    LastWhere(d[Root].kids, LAMBDA e : IsGroup(d, e) /\ d[e].label = Word(name))

SpecialGroup(d, top, bottom, name) ==
    FirstWhere(d[top].kids \o d[bottom].kids,
               LAMBDA c : IsGroup(d, c) /\ d[c].label = Word(name))

GreensGuide(d, top, bottom) ==
    LastWhere(d[top].kids \o d[bottom].kids,
              LAMBDA c : IsGroup(d, c) /\ d[c].label = Word("greens_guide"))

HoleChildren(d, group) ==
    SelectSeq(d[group].kids, LAMBDA c : IsGroup(d, c) /\ StartsWithHole(d[c].label))

GreenChildren(d, group) ==
    SelectSeq(d[group].kids, LAMBDA c : IsGreenBottomLabel(d[c].label))

Invalid(error) == [valid |-> FALSE, error |-> error]

ValidateDocumentStructure(d) ==
    Bind(<<RootGroup(d, "top"), RootGroup(d, "bottom")>>, LAMBDA rg :
        IF rg[1] = None \/ rg[2] = None THEN Invalid("missing required root groups")
        ELSE Bind([notes |-> SpecialGroup(d, rg[1], rg[2], "notes"),
                   cover |-> SpecialGroup(d, rg[1], rg[2], "cover"),
                   back |-> SpecialGroup(d, rg[1], rg[2], "back"),
                   yardage_chart |-> SpecialGroup(d, rg[1], rg[2], "yardage_chart")],
             LAMBDA sg :
                IF None \in {sg.notes, sg.cover, sg.back, sg.yardage_chart}
                THEN Invalid("missing required groups")
                ELSE IF Len(HoleChildren(d, rg[1])) < RequiredHoles
                THEN Invalid("top should contain 18 hole_XX children")
                ELSE IF Len(GreenChildren(d, rg[2])) < RequiredGreens
                THEN Invalid("bottom should contain 18 green_XX_bottom children")
                ELSE [valid |-> TRUE, error |-> "", top |-> rg[1], bottom |-> rg[2],
                      notes |-> sg.notes, cover |-> sg.cover, back |-> sg.back,
                      yardage_chart |-> sg.yardage_chart,
                      greens_guide |-> GreensGuide(d, rg[1], rg[2])]))

\* ExportPDFs._get_visibility_state: an unset property reads as its default
GetVisibilityState(d, n) ==
    [display |-> IF d[n].display = "unset" THEN "inline" ELSE d[n].display,
     visibility |-> IF d[n].visibility = "unset" THEN "visible" ELSE d[n].visibility]

\* the groups _save_visibility_states goes through, each followed by its children
GroupsToCheck(d, v) ==
    <<v.top>> \o d[v.top].kids \o <<v.bottom>> \o d[v.bottom].kids \o
    <<v.notes>> \o d[v.notes].kids \o <<v.cover>> \o d[v.cover].kids \o
    <<v.back>> \o d[v.back].kids \o <<v.yardage_chart>> \o d[v.yardage_chart].kids

\* ExportPDFs._save_visibility_states: a dict keyed by element id; an element
\* without an id is not saved, and a later element with the same id overwrites
SaveVisibilityStates(d, v) ==
    Bind(SelectSeq(GroupsToCheck(d, v), LAMBDA n : d[n].id # NoName), LAMBDA saved :
        [id \in {d[n].id : n \in Range(saved)} |->
            GetVisibilityState(d, LastWhere(saved, LAMBDA n : d[n].id = id))])

\* ExportPDFs._restore_visibility_states: each saved state goes to the element
\* getElementById finds for its id
RestoreVisibilityStates(d, states) ==
    [n \in DOMAIN d |->
        IF d[n].id \in DOMAIN states /\ GetElementById(d, d[n].id) = n
        THEN [d[n] EXCEPT !.display = states[d[n].id].display,
                          !.visibility = states[d[n].id].visibility]
        ELSE d[n]]

\* ExportPDFs._hide_element, for a set of elements
HideElements(d, ns) ==
    [n \in DOMAIN d |-> IF n \in ns THEN [d[n] EXCEPT !.display = "none"] ELSE d[n]]

\* ExportPDFs._show_element_direct
ShowElementDirect(d, n) == [d EXCEPT ![n].display = "inline", ![n].visibility = "visible"]

\* ExportPDFs._show_element_in_group: the first child with the label, whatever
\* its tag; a warning and nothing else when there is none
ShowElementInGroup(d, group, label) ==
    Bind(FirstWhere(d[group].kids, LAMBDA c : d[c].label = label), LAMBDA child :
        IF child = None THEN d ELSE ShowElementDirect(d, child))

\* hole_XX -> green_XX_bottom (export_pdfs.py 547-551)
GreenLabel(bottom_visible) ==
    IF bottom_visible[1] = "hole" THEN Name("green_bottom", bottom_visible[2])
    ELSE bottom_visible

ShowTop(d, v, top_visible, special_top) ==
    IF special_top
    THEN IF top_visible = Word("back") THEN ShowElementDirect(d, v.back)
         ELSE IF top_visible = Word("yardage_chart") THEN ShowElementDirect(d, v.yardage_chart)
         ELSE d
    ELSE ShowElementInGroup(d, v.top, top_visible)

ShowBottom(d, v, bottom_visible, special_bottom) ==
    IF special_bottom
    THEN IF bottom_visible \in {Word("cover"), Word("notes")}
         THEN Bind(ShowElementDirect(d, IF bottom_visible = Word("cover") THEN v.cover ELSE v.notes),
                   LAMBDA e : IF v.greens_guide = None THEN e
                              ELSE HideElements(e, {v.greens_guide}))
         ELSE d
    ELSE Bind(ShowElementInGroup(d, v.bottom, GreenLabel(bottom_visible)), LAMBDA e :
            IF v.greens_guide = None THEN e ELSE ShowElementDirect(e, v.greens_guide))

\* ExportPDFs._configure_visibility; config is (top, bottom, special_top, special_bottom)
ConfigureVisibility(d, v, config) ==
    Bind(HideElements(d, Range(HoleChildren(d, v.top)) \cup Range(GreenChildren(d, v.bottom))
                         \cup {v.notes, v.cover, v.back, v.yardage_chart}), LAMBDA hidden :
    Bind(ShowTop(hidden, v, config[1], config[3]), LAMBDA top_shown :
        ShowBottom(top_shown, v, config[2], config[4])))

\* individual_page_configs (export_pdfs.py 116-139)
HolePage(top, bottom) == <<Name("hole", top), Name("hole", bottom), FALSE, FALSE>>

IndividualPageConfigs ==
    << HolePage(9, 9), HolePage(8, 10), HolePage(7, 11), HolePage(6, 12), HolePage(5, 13),
       HolePage(4, 14), HolePage(3, 15), HolePage(2, 16), HolePage(1, 17),
       <<Word("yardage_chart"), Name("hole", 18), TRUE, FALSE>>,
       HolePage(10, 8), HolePage(11, 7), HolePage(12, 6), HolePage(13, 5), HolePage(14, 4),
       HolePage(15, 3), HolePage(16, 2), HolePage(17, 1),
       <<Name("hole", 18), Word("notes"), FALSE, TRUE>>,
       <<Word("back"), Word("cover"), TRUE, TRUE>> >>

\* page_combinations (export_pdfs.py 143-154), 0-based as in the source
PageCombinations ==
    << <<0, 1>>, <<2, 3>>, <<4, 5>>, <<6, 7>>, <<8, 9>>,
       <<10, 11>>, <<12, 13>>, <<14, 15>>, <<16, 17>>, <<18, 19>> >>

\* the page_indices of booklet_configs (export_pdfs.py 739-745), 0-based
BookletConfigs == << <<0, 5>>, <<1, 6>>, <<2, 7>>, <<3, 8>>, <<4, 9>> >>

\* ExportPDFs._format_element_name: "hole_09" -> "9", a special name as it is
FormatElementName(element_name, is_special) ==
    IF is_special THEN element_name
    ELSE IF element_name[1] = "hole" THEN Name("", element_name[2])
    ELSE element_name

\* ExportPDFs._generate_narrow_filename
GenerateNarrowFilename(config) ==
    <<"temp_narrow", FormatElementName(config[1], config[3]),
                     FormatElementName(config[2], config[4])>>

\* ExportPDFs._generate_wide_filename: the tops of the two narrow pages
GenerateWideFilename(left_config, right_config) ==
    <<"temp_wide", FormatElementName(left_config[1], left_config[3]),
                   FormatElementName(right_config[1], right_config[3])>>

\* "yardage_book_0k.pdf"
BookletFilename(k) == <<"yardage_book", Name("", k), NoName>>

Exists(fs, name) == name \in DOMAIN fs

WriteFile(fs, name, pages) ==
    [f \in DOMAIN fs \cup {name} |-> IF f = name THEN pages ELSE fs[f]]

Unlink(fs, names) == [f \in DOMAIN fs \ names |-> fs[f]]

\* what Inkscape renders of the children of 'top' and 'bottom'
Rendered(d, group) ==
    {c \in Range(d[group].kids) : d[c].display # "none" /\ d[c].visibility # "hidden"}

\* the children of a group that have display:none
NotDisplayed(d, group) == {c \in Range(d[group].kids) : d[c].display = "none"}

Panel(d, v, idx) ==
    [config |-> idx, top |-> Rendered(d, v.top), bottom |-> Rendered(d, v.bottom)]

\* Step 1 (export_pdfs.py 157-170): configure and export page idx and those
\* after it.  s is the document, the files, what is shown and what has
\* display:none on every page as configured, and the names written; an
\* export in failed raises and writes no file.
RECURSIVE ExportPages(_, _, _, _)
ExportPages(s, v, idx, failed) ==
    IF idx > Len(IndividualPageConfigs) THEN s
    ELSE Bind(ConfigureVisibility(s.doc, v, IndividualPageConfigs[idx]), LAMBDA d :
            ExportPages(
                [doc |-> d,
                 files |-> IF idx \in failed THEN s.files
                           ELSE WriteFile(s.files, GenerateNarrowFilename(IndividualPageConfigs[idx]),
                                          << <<Panel(d, v, idx)>> >>),
                 pages |-> Append(s.pages, [shown |-> Rendered(d, v.top) \cup Rendered(d, v.bottom),
                                            hidden |-> NotDisplayed(d, v.top) \cup NotDisplayed(d, v.bottom)]),
                 written |-> IF idx \in failed THEN s.written
                             ELSE s.written \cup {GenerateNarrowFilename(IndividualPageConfigs[idx])}],
                v, idx + 1, failed))

IndividualPdfPaths ==
    [i \in 1..Len(IndividualPageConfigs) |-> GenerateNarrowFilename(IndividualPageConfigs[i])]

\* ExportPDFs._combine_side_by_side: the first page of each, left then right
CombineSideBySide(fs, left_path, right_path) == << fs[left_path][1] \o fs[right_path][1] >>

\* Step 2 (export_pdfs.py 175-190): combination idx and those after it.  s is
\* the files, combined_page_paths and the names written.
RECURSIVE CombinePages(_, _, _)
CombinePages(s, idx, failed) ==
    IF idx > Len(PageCombinations) THEN s
    ELSE Bind([left |-> PageCombinations[idx][1] + 1, right |-> PageCombinations[idx][2] + 1],
         LAMBDA at :
            IF /\ Exists(s.files, IndividualPdfPaths[at.left])
               /\ Exists(s.files, IndividualPdfPaths[at.right])
               /\ idx \notin failed
            THEN Bind(GenerateWideFilename(IndividualPageConfigs[at.left],
                                           IndividualPageConfigs[at.right]), LAMBDA combined_path :
                    CombinePages(
                        [files |-> WriteFile(s.files, combined_path,
                                             CombineSideBySide(s.files, IndividualPdfPaths[at.left],
                                                               IndividualPdfPaths[at.right])),
                         combined |-> Append(s.combined, combined_path),
                         written |-> s.written \cup {combined_path}],
                        idx + 1, failed))
            ELSE CombinePages(s, idx + 1, failed))

\* the pages one booklet is written with (export_pdfs.py 753-757)
BookletPages(fs, page_paths, page_indices) ==
    Bind(SelectSeq(page_indices,
                   LAMBDA i : i < Len(page_paths) /\ Exists(fs, page_paths[i + 1])),
         LAMBDA found : [j \in 1..Len(found) |-> fs[page_paths[found[j] + 1]][1]])

\* ExportPDFs._combine_into_booklets: booklet k and those after it; a booklet
\* in failed raises and is not written
RECURSIVE CombineIntoBooklets(_, _, _, _)
CombineIntoBooklets(s, page_paths, k, failed) ==
    IF k > Len(BookletConfigs) THEN s
    ELSE IF k \in failed THEN CombineIntoBooklets(s, page_paths, k + 1, failed)
    ELSE CombineIntoBooklets(
            [files |-> WriteFile(s.files, BookletFilename(k),
                                 BookletPages(s.files, page_paths, BookletConfigs[k])),
             booklets |-> Append(s.booklets, BookletFilename(k)),
             written |-> s.written \cup {BookletFilename(k)}],
            page_paths, k + 1, failed)

\* Steps 2 and 3 with their clean-up (export_pdfs.py 172-210)
Combine(fs, written, env) ==
    Bind(CombinePages([files |-> fs, combined |-> <<>>, written |-> written],
                      1, env.failed_combines), LAMBDA c :
    Bind(Unlink(c.files, Range(IndividualPdfPaths)), LAMBDA cleaned :
        IF Len(c.combined) = WidePages
        THEN Bind(CombineIntoBooklets([files |-> cleaned, booklets |-> <<>>, written |-> c.written],
                                      c.combined, 1, env.failed_booklets), LAMBDA b :
                [files |-> Unlink(b.files, Range(c.combined)), combined |-> c.combined,
                 booklets |-> b.booklets, written |-> b.written])
        ELSE [files |-> cleaned, combined |-> c.combined, booklets |-> <<>>,
              written |-> c.written]))

NotRun(d, fs, error) ==
    [doc |-> d, files |-> fs, error |-> error, exported |-> FALSE, pages |-> <<>>,
     combined |-> <<>>, booklets |-> <<>>, written |-> {}]

\* ExportPDFs.effect.  options is the dialog's combine_booklets; env is what
\* the machine does: whether the Inkscape CLI is found and the output
\* directory can be made, and which exports, combinations and booklets raise.
ExportPDFsRun(d, fs, options, env) ==
    Bind(ValidateDocumentStructure(d), LAMBDA v :
        IF ~v.valid THEN NotRun(d, fs, v.error)
        ELSE IF ~env.inkscape_found THEN NotRun(d, fs, "Inkscape CLI not found")
        ELSE IF ~env.output_dir_made THEN NotRun(d, fs, "Failed to create output directory")
        ELSE Bind(SaveVisibilityStates(d, v), LAMBDA original_states :
             Bind(ExportPages([doc |-> d, files |-> fs, pages |-> <<>>, written |-> {}],
                              v, 1, env.failed_exports), LAMBDA e :
             Bind(IF options.combine_booklets
                  THEN Combine(e.files, e.written, env)
                  ELSE [files |-> e.files, combined |-> <<>>, booklets |-> <<>>,
                        written |-> e.written], LAMBDA c :
                [doc |-> RestoreVisibilityStates(e.doc, original_states),
                 files |-> c.files, error |-> "", exported |-> TRUE, pages |-> e.pages,
                 combined |-> c.combined, booklets |-> c.booklets, written |-> c.written]))))

ExportPDFs(options, env) ==
    /\ pre' = doc
    /\ ran' = ran \cup {"export_pdfs"}
    /\ steps' = steps + 1
    /\ \E r \in {ExportPDFsRun(doc, files, options, env)} :
        /\ doc' = r.doc
        /\ files' = r.files
        /\ last' = [op |-> "export_pdfs", options |-> options, env |-> env, error |-> r.error,
                    exported |-> r.exported, pages |-> r.pages, combined |-> r.combined,
                    booklets |-> r.booklets, written |-> r.written]

----------------------------------------------------------------------------
(* Specification SpecExport: Export PDFs run on finished yardage-book      *)
(* documents.  Every document has 'top' with 18 hole groups, yardage_chart *)
(* and back, and 'bottom' with 18 green_XX_bottom paths, cover and notes.  *)
(* The documents differ in: the label of the eighteenth hole group         *)
(* (hole_18, or hole_17 a second time), whether the hole groups carry an   *)
(* id (Add Hole Label gives its wrapper one, Group Hole gives its group    *)
(* only a label), what is hidden to begin with, whether 'bottom' has a     *)
(* greens_guide, and whether the document has enough holes to be exported. *)

MaxExportRuns == 2      \* Export PDFs runs in one behaviour

\* the node numbers of the document: root 0, top 1, bottom 2, the hole groups
\* 3..20, yardage_chart 21, back 22, the greens 23..40, greens_guide 41,
\* cover 42, notes 43 and its text 44
HoleNode(h) == 2 + h
GreenNode(h) == 22 + h
Node(what) ==
    CASE what = "top" -> 1
      [] what = "bottom" -> 2
      [] what = "yardage_chart" -> 21
      [] what = "back" -> 22
      [] what = "greens_guide" -> 41
      [] what = "cover" -> 42
      [] what = "notes" -> 43
      [] what = "notes_text" -> 44

HoleNodes == [h \in 1..RequiredHoles |-> HoleNode(h)]
GreenNodes == [h \in 1..RequiredGreens |-> GreenNode(h)]

Styled(e, display, visibility) == [e EXCEPT !.display = display, !.visibility = visibility]

\* what is hidden in the document before the run
StyleOf(n, hidden) ==
    IF hidden = "some"
    THEN IF n = HoleNode(1) THEN <<"none", "unset">>
         ELSE IF n = GreenNode(1) THEN <<"inline", "hidden">>
         ELSE IF n \in {Node("cover"), HoleNode(18)} THEN <<"none", "visible">>
         ELSE IF n = Node("back") THEN <<"inline", "visible">>
         ELSE <<"unset", "unset">>
    ELSE <<"unset", "unset">>

ExportElement(n, last_label, with_ids, guide, holes) ==
    IF n = Root
    THEN Element("svg", NoName, NoName, <<Node("top"), Node("bottom")>>)
    ELSE IF n = Node("top")
    THEN Group(Word("layer_top"), Word("top"),
               SubSeq(HoleNodes, 1, holes) \o <<Node("yardage_chart"), Node("back")>>)
    ELSE IF n = Node("bottom")
    THEN Group(Word("layer_bottom"), Word("bottom"),
               GreenNodes \o (IF guide THEN <<Node("greens_guide")>> ELSE <<>>) \o <<Node("cover"), Node("notes")>>)
    ELSE IF n \in Range(HoleNodes)
    THEN Group(IF with_ids THEN Name("hole", n - 2) ELSE NoName,
               Name("hole", IF n = HoleNode(RequiredHoles) THEN last_label ELSE n - 2), <<>>)
    ELSE IF n \in Range(GreenNodes)
    THEN Element("path", Name("green_bottom", n - 22), Name("green_bottom", n - 22), <<>>)
    ELSE IF n = Node("yardage_chart") THEN Group(Word("g_chart"), Word("yardage_chart"), <<>>)
    ELSE IF n = Node("back") THEN Group(Word("g_back"), Word("back"), <<>>)
    ELSE IF n = Node("greens_guide") THEN Group(Word("g_guide"), Word("greens_guide"), <<>>)
    ELSE IF n = Node("cover") THEN Group(Word("g_cover"), Word("cover"), <<>>)
    ELSE IF n = Node("notes") THEN Group(Word("g_notes"), Word("notes"), <<Node("notes_text")>>)
    ELSE Element("text", Word("notes_text"), NoName, <<>>)

ExportDoc(last_label, with_ids, hidden, guide, holes) ==
    Collect([n \in 0..Node("notes_text") |->
                Styled(ExportElement(n, last_label, with_ids, guide, holes),
                       StyleOf(n, hidden)[1], StyleOf(n, hidden)[2])])

ExportDocs ==
    {ExportDoc(last_label, with_ids, hidden, guide, RequiredHoles) :
        last_label \in {17, 18}, with_ids \in BOOLEAN,
        hidden \in {"nothing", "some"}, guide \in BOOLEAN}
    \cup {ExportDoc(17, TRUE, "nothing", TRUE, 17)}

InitExport ==
    /\ doc \in ExportDocs
    /\ pre = doc
    /\ last = [op |-> "none"]
    /\ ran = {"flatten_svg", "group_hole", "auto_place_holes"}
    /\ steps = 0
    /\ files = <<>>

ExportOptions == [combine_booklets : BOOLEAN]

\* the machine: everything works, or the set-up fails, or some exports,
\* combinations or booklets raise
ExportEnvs ==
    [inkscape_found : {TRUE}, output_dir_made : {TRUE},
     failed_exports : {{}, {1}, {19, 20}},
     failed_combines : {{}, {WidePages}},
     failed_booklets : {{}, {5}}]
    \cup [inkscape_found : {FALSE}, output_dir_made : {TRUE},
          failed_exports : {{}}, failed_combines : {{}}, failed_booklets : {{}}]
    \cup [inkscape_found : {TRUE}, output_dir_made : {FALSE},
          failed_exports : {{}}, failed_combines : {{}}, failed_booklets : {{}}]

NextExport ==
    \/ steps < MaxExportRuns /\ \E options \in ExportOptions, env \in ExportEnvs :
                                    ExportPDFs(options, env)

SpecExport == InitExport /\ [][NextExport]_vars

----------------------------------------------------------------------------
(* Claims about Export PDFs *)

ExportRun == last.op = "export_pdfs"

\* the run got past validation and set-up and went through the pages
Exported == ExportRun /\ last.exported

\* the groups validation found in the document the run started from
Validated == ValidateDocumentStructure(pre)

\* the items a page is made of
TopItems(d, v) == Range(HoleChildren(d, v.top)) \cup {v.back, v.yardage_chart}
BottomItems(d, v) == Range(GreenChildren(d, v.bottom)) \cup {v.cover, v.notes}

\* every element whose visibility the export toggles
Toggled(d, v) ==
    TopItems(d, v) \cup BottomItems(d, v)
    \cup (IF v.greens_guide = None THEN {} ELSE {v.greens_guide})

\* exactly one of the items is shown on the page and the others have display:none
ExactlyOneShown(items, page) ==
    \E shown \in items :
        /\ shown \in page.shown
        /\ \A other \in items \ {shown} : other \in page.hidden

OneTopOneBottom(page) ==
    /\ ExactlyOneShown(TopItems(pre, Validated), page)
    /\ ExactlyOneShown(BottomItems(pre, Validated), page)

\* C5: on a document that passes validation, each of the 20 pages as
\* configured by _configure_visibility shows exactly one top item and exactly
\* one bottom item, and every other item has display:none.
C5_OneTopOneBottomPerPage ==
    Exported => \A i \in 1..NarrowPages : OneTopOneBottom(last.pages[i])

\* 'top' has a child labelled hole_NN for every hole
AllHolesLabelled(d, v) ==
    \A h \in 1..RequiredHoles : \E c \in Range(d[v.top].kids) : d[c].label = Name("hole", h)

\* what does hold: one top and one bottom item per page when no hole label
\* is missing from 'top'
OneTopOneBottomWhenAllHolesLabelled ==
    (Exported /\ AllHolesLabelled(pre, Validated))
        => \A i \in 1..NarrowPages : OneTopOneBottom(last.pages[i])

SameVisibility(n) == GetVisibilityState(doc, n) = GetVisibilityState(pre, n)

\* C6: after an Export PDFs run, every element the export toggles has the
\* display and visibility it had before the run, whether or not exports failed.
C6_VisibilityRestored ==
    (ExportRun /\ Validated.valid) => \A n \in Toggled(pre, Validated) : SameVisibility(n)

\* what does hold: the elements that have an id are restored
VisibilityRestoredWhereIdentified ==
    (ExportRun /\ Validated.valid)
        => \A n \in Toggled(pre, Validated) : pre[n].id # NoName => SameVisibility(n)

IsTemporary(name) == name[1] \in {"temp_narrow", "temp_wide"}

\* C7: with combine_booklets enabled, no temporary file written by the run is
\* left in the output directory when the run ends, whichever exports or
\* combinations failed.
C7_TemporaryFilesCleaned ==
    (Exported /\ last.options.combine_booklets)
        => \A name \in last.written : IsTemporary(name) => ~Exists(files, name)

\* what does hold: the narrow pages are always removed
NarrowPagesCleaned ==
    (Exported /\ last.options.combine_booklets)
        => \A name \in last.written : name[1] = "temp_narrow" => ~Exists(files, name)

\* wide page j: narrow pages 2j-1 and 2j side by side
IsWidePage(page, j) ==
    /\ Len(page) = 2
    /\ page[1].config = 2 * j - 1
    /\ page[2].config = 2 * j

\* C8: booklet k is wide page 2k-1 followed by wide page 2k.
C8_BookletsPairSequentialPages ==
    Exported =>
        \A k \in 1..Len(BookletConfigs) :
            BookletFilename(k) \in Range(last.booklets) =>
                /\ Len(files[BookletFilename(k)]) = 2
                /\ IsWidePage(files[BookletFilename(k)][1], 2 * k - 1)
                /\ IsWidePage(files[BookletFilename(k)][2], 2 * k)

\* what the run does: booklet k is wide page k followed by wide page k + 5
BookletsPairFrontWithBack ==
    Exported =>
        \A k \in 1..Len(BookletConfigs) :
            BookletFilename(k) \in Range(last.booklets) =>
                /\ Len(files[BookletFilename(k)]) = 2
                /\ IsWidePage(files[BookletFilename(k)][1], k)
                /\ IsWidePage(files[BookletFilename(k)][2], k + 5)

\* runs that the export claims are about are reached
ExportedAllPages ==
    /\ Exported
    /\ last.options.combine_booklets
    /\ Len(last.booklets) = Len(BookletConfigs)
    /\ AllHolesLabelled(pre, Validated)

----------------------------------------------------------------------------
(* flatten_svg.py: Flatten SVG (Stage 1).  In the documents Flatten SVG    *)
(* runs on, a transform is a uniform scale followed by a translation,      *)
(* [s, x, y] : p |-> s * p + (x, y), so that composition is not            *)
(* commutative; the root's pts hold the two corners of the viewBox.  The   *)
(* stroke style _apply_stroke sets is not represented.                     *)

Affine(s, x, y) == [s |-> s, x |-> x, y |-> y]

NoTransform == Affine(1, 0, 0)      \* inkex.Transform()

\* a @ b: first b, then a
Compose(a, b) == Affine(a.s * b.s, a.s * b.x + a.x, a.s * b.y + a.y)

ApplyTo(t, p) == <<t.s * p[1] + t.x, t.s * p[2] + t.y>>

\* the box of a list of points under a transform
BoxUnder(t, pts) ==
    LET xs == {ApplyTo(t, pts[i])[1] : i \in 1..Len(pts)}
        ys == {ApplyTo(t, pts[i])[2] : i \in 1..Len(pts)}
    IN  [left |-> Min(xs), right |-> Max(xs), top |-> Min(ys), bottom |-> Max(ys)]

\* element.bounding_box(): the element's geometry under its own transform
BoundingBox(d, n) == BoxUnder(d[n].tr, d[n].pts)

\* isinstance(child, (inkex.PathElement, inkex.ShapeElement))
IsShape(d, n) == d[n].tag \in {"path", "rect", "circle", "ellipse", "polygon"}

\* FlattenSVG._get_canvas_bounds: (x_min, y_min, x_max, y_max) of the viewBox
GetCanvasBounds(d) == <<d[Root].pts[1][1], d[Root].pts[1][2], d[Root].pts[2][1], d[Root].pts[2][2]>>

\* FlattenSVG._collect_elements for the children ks of one parent.  acc is
\* <<>> for None and <<t>> for the accumulated transform t; the result is the
\* (element, accumulated transform) pairs and the groups, as the lists grow.
RECURSIVE CollectElements(_, _, _, _)
CollectElements(d, ks, acc, lists) ==
    IF ks = <<>> THEN lists
    ELSE IF IsGroup(d, Head(ks))
    THEN Bind(IF acc = <<>> THEN <<d[Head(ks)].tr>> ELSE <<Compose(acc[1], d[Head(ks)].tr)>>,
         LAMBDA current_transform :
         Bind(CollectElements(d, d[Head(ks)].kids, current_transform, lists), LAMBDA inner :
            CollectElements(d, Tail(ks), acc,
                            [elements |-> inner.elements,
                             groups |-> Append(inner.groups, Head(ks))])))
    ELSE IF IsShape(d, Head(ks))
    THEN CollectElements(d, Tail(ks), acc,
                         [elements |-> Append(lists.elements, <<Head(ks), acc>>),
                          groups |-> lists.groups])
    ELSE CollectElements(d, Tail(ks), acc, lists)

\* the test of _filter_offcanvas_elements (flatten_svg.py 337-338)
Intersects(bbox, canvas_bounds) ==
    ~(\/ bbox.right < canvas_bounds[1] \/ bbox.left > canvas_bounds[3]
      \/ bbox.bottom < canvas_bounds[2] \/ bbox.top > canvas_bounds[4])

\* FlattenSVG._filter_offcanvas_elements: an element whose bounding_box()
\* misses the canvas is removed from its parent at once and dropped
RECURSIVE FilterOffcanvasElements(_, _, _, _)
FilterOffcanvasElements(d, elements_list, canvas_bounds, filtered) ==
    IF elements_list = <<>> THEN [doc |-> d, elements |-> filtered]
    ELSE Bind(Head(elements_list)[1], LAMBDA element :
            IF HasBoundingBox(d, element) /\ ~Intersects(BoundingBox(d, element), canvas_bounds)
            THEN FilterOffcanvasElements(Detach(d, element), Tail(elements_list),
                                         canvas_bounds, filtered)
            ELSE FilterOffcanvasElements(d, Tail(elements_list), canvas_bounds,
                                         Append(filtered, Head(elements_list))))

\* the groups made at flatten_svg.py 80-103, in the order
\* other, trees, water, paths, mapping_lines, greens, fairways, bunkers
FlattenLabels ==
    <<"other", "trees", "water", "paths", "mapping_lines", "greens", "fairways", "bunkers">>

FlattenGroup(label) == [Group(NoName, Word(label), <<>>) EXCEPT !.tr = NoTransform]

FlattenGroups(d) ==
    WithNewAll(d, [i \in 1..Len(FlattenLabels) |-> FlattenGroup(FlattenLabels[i])], <<>>)

\* the group of a category; None for an uncategorized element
GroupOfCategory(g, category) ==
    CASE category = "mapping_line" -> g[5]
      [] category = "path_line" -> g[4]
      [] category = "green" -> g[6]
      [] category = "fairway" -> g[7]
      [] category = "bunker" -> g[8]
      [] category = "water" -> g[3]
      [] category = "tree" -> g[2]
      [] OTHER -> None

\* the composition the other way round: element.transform @ accumulated_transform
WithAccumulatedAfter(d, element, acc) ==
    IF acc # <<>> /\ acc[1] # NoTransform
    THEN [d EXCEPT ![element].tr = Compose(@, acc[1])]
    ELSE d

\* accumulated_transform @ element.transform, unless there is nothing to apply
\* (flatten_svg.py 107-111)
WithAccumulated(d, element, acc) ==
    IF acc # <<>> /\ acc[1] # NoTransform
    THEN [d EXCEPT ![element].tr = Compose(acc[1], @)]
    ELSE d

\* the sorting loop (flatten_svg.py 105-138): the document and elements_to_delete
RECURSIVE SortElements(_, _, _, _)
SortElements(d, elements, g, to_delete) ==
    IF elements = <<>> THEN [doc |-> d, to_delete |-> to_delete]
    ELSE Bind(WithAccumulated(d, Head(elements)[1], Head(elements)[2]), LAMBDA d1 :
         Bind(GroupOfCategory(g, CategorizeElementByColor(d1, Head(elements)[1])), LAMBDA group :
            IF group = None
            THEN SortElements(d1, Tail(elements), g, Append(to_delete, Head(elements)[1]))
            ELSE SortElements(AppendTo(d1, group, Head(elements)[1]), Tail(elements), g,
                              to_delete)))

RECURSIVE DetachAll(_, _)
DetachAll(d, ns) ==
    IF ns = <<>> THEN d ELSE Bind(Detach(d, Head(ns)), LAMBDA e : DetachAll(e, Tail(ns)))

\* append the groups of a list that have children, in list order
RECURSIVE AppendFilled(_, _, _)
AppendFilled(d, parent, groups) ==
    IF groups = <<>> THEN d
    ELSE IF d[Head(groups)].kids # <<>>
    THEN Bind(AppendTo(d, parent, Head(groups)), LAMBDA e : AppendFilled(e, parent, Tail(groups)))
    ELSE AppendFilled(d, parent, Tail(groups))

\* flatten_svg.py 146-164
AddFlattenGroups(d, g) ==
    Bind(AppendFilled(d, Root, <<g[6], g[7], g[8]>>), LAMBDA d1 :
    Bind(AppendFilled(d1, g[1], <<g[2], g[3], g[4], g[5]>>), LAMBDA d2 :
        AppendFilled(d2, Root, <<g[1]>>)))

\* FlattenSVG._apply_canvas_clipping: a new canvas-clip clipPath in defs on
\* every run, and the clip-path on every group that is a child of the root
ApplyCanvasClipping(d) ==
    Bind(EnsureDefs(d), LAMBDA d1 :
    Bind(WithNew(d1, Element("rect", NoName, NoName, <<>>)), LAMBDA d2 :
    Bind(WithNew(d2, Element("clipPath", Word("canvas-clip"), NoName, <<Fresh(d1)>>)), LAMBDA d3 :
    Bind(AppendTo(d3, FindDefs(d1), Fresh(d2)), LAMBDA d4 :
        [n \in DOMAIN d4 |->
            IF n \in Range(d4[Root].kids) /\ IsGroup(d4, n)
            THEN [d4[n] EXCEPT !.clip = Word("canvas-clip")]
            ELSE d4[n]]))))

\* flatten_svg.py 172-176: the collected groups, last collected first; a
\* group is removed when it is empty at the moment it is looked at
RECURSIVE RemoveEmptyGroups(_, _)
RemoveEmptyGroups(d, groups) ==
    IF groups = <<>> THEN d
    ELSE IF GetParent(d, Head(groups)) # None /\ d[Head(groups)].kids = <<>>
    THEN Bind(Detach(d, Head(groups)), LAMBDA e : RemoveEmptyGroups(e, Tail(groups)))
    ELSE RemoveEmptyGroups(d, Tail(groups))

Reverse(s) == [i \in 1..Len(s) |-> s[Len(s) + 1 - i]]

\* flatten_svg.py 178-181: empty groups among the children of the root
CleanRootLevel(d) ==
    [d EXCEPT ![Root].kids = SelectSeq(@, LAMBDA c : ~(IsGroup(d, c) /\ d[c].kids = <<>>))]

\* FlattenSVG.effect
FlattenRun(d) ==
    Bind(CollectElements(d, d[Root].kids, <<>>, [elements |-> <<>>, groups |-> <<>>]),
         LAMBDA collected :
    Bind(FilterOffcanvasElements(d, collected.elements, GetCanvasBounds(d), <<>>), LAMBDA kept :
    Bind(FlattenGroups(kept.doc), LAMBDA made :
    Bind(SortElements(made.doc, kept.elements, made.nodes, <<>>), LAMBDA sorted :
    Bind(DetachAll(sorted.doc, sorted.to_delete), LAMBDA d1 :
    Bind(AddFlattenGroups(d1, made.nodes), LAMBDA d2 :
    Bind(ApplyCanvasClipping(d2), LAMBDA d3 :
    Bind(RemoveEmptyGroups(d3, Reverse(collected.groups)), LAMBDA d4 :
        [doc |-> Collect(CleanRootLevel(d4)),
         elements |-> [i \in 1..Len(collected.elements) |-> collected.elements[i][1]],
         groups |-> collected.groups]))))))))

FlattenSVG ==
    /\ pre' = doc
    /\ ran' = ran \cup {"flatten_svg"}
    /\ steps' = steps + 1
    /\ UNCHANGED files
    /\ \E r \in {FlattenRun(doc)} :
        /\ doc' = r.doc
        /\ last' = [op |-> "flatten_svg", elements |-> r.elements, groups |-> r.groups]

----------------------------------------------------------------------------
(* Specification SpecFlatten: Flatten SVG run on course exports.  A        *)
(* document is a chain of nested groups, each with a transform of its own  *)
(* and one shape beside the next group; the root holds one more shape.     *)
(* The viewBox is (0, 0, 30, 30).                                          *)

MaxDepth == 3           \* deepest nesting of groups in an export
MaxFlattenRuns == 2     \* Flatten SVG runs in one behaviour

GroupTransforms == {NoTransform, Affine(2, 0, 0), Affine(1, 20, 0), Affine(1, -20, 0)}

Square(x, y) == << <<x, y>>, <<x + 1, y>>, <<x + 1, y + 1>>, <<x, y + 1>> >>

\* the shape in the innermost group: on the canvas by its own coordinates,
\* far to the right of it, without a category, or with a transform of its own
InnermostShapes ==
    { Shape("path", "green", Square(1, 1), NoTransform),
      Shape("path", "green", Square(35, 1), NoTransform),
      Shape("path", "other", Square(1, 1), NoTransform),
      Shape("path", "tree", Square(1, 1), Affine(1, 3, 3)) }

LevelCategories == <<"fairway", "water", "path_line", "bunker", "mapping_line">>

\* the shape beside the groups that has level groups around it
ShapeAtLevel(level) ==
    Shape(IF level = 1 THEN "rect" ELSE "path",
          LevelCategories[(level % Len(LevelCategories)) + 1],
          Square(2, 2 + level), NoTransform)

\* root 0 with the viewBox; the groups 1..depth, group k inside group k - 1;
\* the shape with level groups around it is node depth + 1 + level
FlattenElement(n, depth, transforms, innermost) ==
    IF n = Root
    THEN [Element("svg", NoName, NoName, <<depth + 1, 1>>)
            EXCEPT !.pts = << <<0, 0>>, <<30, 30>> >>, !.tr = NoTransform]
    ELSE IF n < depth
    THEN [Group(NoName, NoName, <<n + 1, depth + 1 + n>>) EXCEPT !.tr = transforms[n]]
    ELSE IF n = depth
    THEN [Group(NoName, NoName, <<depth + 1 + n>>) EXCEPT !.tr = transforms[n]]
    ELSE IF n = 2 * depth + 1 THEN innermost
    ELSE ShapeAtLevel(n - depth - 1)

FlattenDoc(depth, transforms, innermost) ==
    [n \in 0..(2 * depth + 1) |-> FlattenElement(n, depth, transforms, innermost)]

FlattenDocs ==
    UNION { {FlattenDoc(depth, transforms, innermost) :
                transforms \in [1..depth -> GroupTransforms], innermost \in InnermostShapes} :
            depth \in 1..MaxDepth }

InitFlatten ==
    /\ doc \in FlattenDocs
    /\ pre = doc
    /\ last = [op |-> "none"]
    /\ ran = {}
    /\ steps = 0
    /\ files = <<>>

NextFlatten ==
    \/ steps < MaxFlattenRuns /\ FlattenSVG

SpecFlatten == InitFlatten /\ [][NextFlatten]_vars

----------------------------------------------------------------------------
(* Claims about Flatten SVG *)

FlattenDone == last.op = "flatten_svg"

\* the composition of the transforms of all ancestor groups with the
\* element's own transform: where the element is drawn
RECURSIVE DocTransform(_, _)
DocTransform(d, n) ==
    IF GetParent(d, n) \in {None, Root} THEN d[n].tr
    ELSE Compose(DocTransform(d, GetParent(d, n)), d[n].tr)

\* the element's bounding box in document coordinates
CanvasBox(d, n) == BoxUnder(DocTransform(d, n), d[n].pts)

OnCanvas(d, n) == Intersects(CanvasBox(d, n), GetCanvasBounds(d))

\* the shapes Flatten SVG found in the document it ran on
Flattened == Range(last.elements)

\* where a category belongs: the label of its group and of the group around it
CategoryPlace(category) ==
    CASE category = "green" -> <<"greens", "">>
      [] category = "fairway" -> <<"fairways", "">>
      [] category = "bunker" -> <<"bunkers", "">>
      [] category = "tree" -> <<"trees", "other">>
      [] category = "water" -> <<"water", "other">>
      [] category = "path_line" -> <<"paths", "other">>
      [] category = "mapping_line" -> <<"mapping_lines", "other">>

\* n is a child of the group labelled as its category wants, which is a child
\* of the root or of the root-level 'other'
InCategoryGroup(d, n, category) ==
    /\ n \in DOMAIN d
    /\ LET group == GetParent(d, n)
           place == CategoryPlace(category)
       IN  /\ group # None
           /\ IsGroup(d, group)
           /\ d[group].label = Word(place[1])
           /\ IF place[2] = "" THEN GetParent(d, group) = Root
              ELSE /\ GetParent(d, group) # None
                   /\ d[GetParent(d, group)].label = Word(place[2])
                   /\ GetParent(d, GetParent(d, group)) = Root

\* C11: after Flatten SVG every shape that is at least partly on the canvas
\* (ancestor transforms included) and has a category is a child of its
\* category's group, and every shape that is off the canvas or has no
\* category is gone from the document.
C11_SortedOrRemoved ==
    FlattenDone =>
        \A e \in Flattened :
            IF OnCanvas(pre, e) /\ pre[e].cat # "other"
            THEN InCategoryGroup(doc, e, pre[e].cat)
            ELSE e \notin DOMAIN doc

\* what does hold: the same with the canvas test made on the element's own
\* bounding_box(), ancestors left out
SortedOrRemovedByOwnBox ==
    FlattenDone =>
        \A e \in Flattened :
            IF Intersects(BoundingBox(pre, e), GetCanvasBounds(pre)) /\ pre[e].cat # "other"
            THEN InCategoryGroup(doc, e, pre[e].cat)
            ELSE e \notin DOMAIN doc

\* C12: every shape Flatten SVG keeps is drawn after the run where it was
\* drawn before: its transform composed with those of all its ancestors is
\* unchanged, however deep it was nested.
C12_PositionPreserved ==
    FlattenDone =>
        \A e \in Flattened \cap DOMAIN doc : DocTransform(doc, e) = DocTransform(pre, e)

Depth(d, n) == Len(SelectSeq(Iter(d, Root), LAMBDA g : IsGroup(d, g) /\ n \in Range(Iter(d, g))))

\* a shape kept from inside three groups, two of which do not commute
C12_Witness ==
    /\ FlattenDone
    /\ \E e \in Flattened \cap DOMAIN doc :
        /\ Depth(pre, e) >= 3
        /\ \E g, h \in DOMAIN pre :
            /\ IsGroup(pre, g) /\ IsGroup(pre, h)
            /\ e \in Range(Iter(pre, g)) /\ e \in Range(Iter(pre, h))
            /\ Compose(pre[g].tr, pre[h].tr) # Compose(pre[h].tr, pre[g].tr)

\* C13: after Flatten SVG the document has no group without children.
C13_NoEmptyGroups ==
    FlattenDone => \A n \in DOMAIN doc : IsGroup(doc, n) => doc[n].kids # <<>>

\* what does hold: no empty group when no group was more than two deep
NoEmptyGroupsUpToTwoLevels ==
    (FlattenDone /\ \A g \in Range(last.groups) : Depth(pre, g) <= 2)
        => \A n \in DOMAIN doc : IsGroup(doc, n) => doc[n].kids # <<>>

----------------------------------------------------------------------------
(* color_utils.py: the colour categories.  A style is                      *)
(* [present, fill, stroke]; present = FALSE is the style None.  A style    *)
(* value is [kind, rgb]: kind "absent" when the style has no such          *)
(* attribute, "none" for the value none, "rgb" for a colour with the       *)
(* channels rgb.  The value none is taken to be a colour without red,      *)
(* green and blue components.                                              *)

Tolerance == 8

\* COLORS: category |-> rgb, style_attr, requires_no_fill
ColorDef(rgb, style_attr, requires_no_fill) ==
    [rgb |-> rgb, tolerance |-> Tolerance, style_attr |-> style_attr,
     requires_no_fill |-> requires_no_fill]

COLORS ==
    [category \in {"green", "fairway", "bunker", "water", "tree", "mapping_line", "path_line"} |->
        CASE category = "green" -> ColorDef(<<135, 222, 189>>, "fill", FALSE)
          [] category = "fairway" -> ColorDef(<<204, 235, 176>>, "fill", FALSE)
          [] category = "bunker" -> ColorDef(<<245, 232, 197>>, "fill", FALSE)
          [] category = "water" -> ColorDef(<<168, 209, 222>>, "fill", FALSE)
          [] category = "tree" -> ColorDef(<<143, 191, 122>>, "fill", FALSE)
          [] category = "mapping_line" -> ColorDef(<<102, 102, 102>>, "stroke", TRUE)
          [] category = "path_line" -> ColorDef(<<250, 127, 112>>, "stroke", FALSE)]

Absent == [kind |-> "absent", rgb |-> <<0, 0, 0>>]
NoneValue == [kind |-> "none", rgb |-> <<0, 0, 0>>]
Rgb(r, g, b) == [kind |-> "rgb", rgb |-> <<r, g, b>>]

\* style.get(style_attr)
StyleGet(style, style_attr) == IF style_attr = "fill" THEN style.fill ELSE style.stroke

\* check_color_match with every channel strictly inside the range
CheckColorMatchStrict(style, style_attr, target_rgb, tolerance) ==
    IF ~style.present THEN FALSE
    ELSE Bind(StyleGet(style, style_attr), LAMBDA color_value :
        IF color_value.kind = "absent" THEN FALSE
        ELSE IF color_value.kind # "rgb" THEN FALSE
        ELSE /\ target_rgb[1] - tolerance < color_value.rgb[1]
             /\ color_value.rgb[1] < target_rgb[1] + tolerance
             /\ target_rgb[2] - tolerance < color_value.rgb[2]
             /\ color_value.rgb[2] < target_rgb[2] + tolerance
             /\ target_rgb[3] - tolerance < color_value.rgb[3]
             /\ color_value.rgb[3] < target_rgb[3] + tolerance)

\* check_color_match
CheckColorMatch(style, style_attr, target_rgb, tolerance) ==
    IF ~style.present THEN FALSE
    ELSE Bind(StyleGet(style, style_attr), LAMBDA color_value :
        IF color_value.kind = "absent" THEN FALSE
        ELSE IF color_value.kind # "rgb" THEN FALSE
        ELSE /\ target_rgb[1] - tolerance <= color_value.rgb[1]
             /\ color_value.rgb[1] <= target_rgb[1] + tolerance
             /\ target_rgb[2] - tolerance <= color_value.rgb[2]
             /\ color_value.rgb[2] <= target_rgb[2] + tolerance
             /\ target_rgb[3] - tolerance <= color_value.rgb[3]
             /\ color_value.rgb[3] <= target_rgb[3] + tolerance)

\* is_color_category, for a category of COLORS
IsColorCategory(style, category) ==
    Bind(COLORS[category], LAMBDA color_def :
        IF ~style.present THEN FALSE
        ELSE IF color_def.requires_no_fill /\ style.fill.kind # "absent" /\ style.fill.kind # "none"
        THEN FALSE
        ELSE CheckColorMatch(style, color_def.style_attr, color_def.rgb, color_def.tolerance))

\* categorize_element_by_color, on the element's style
CategorizeStyle(style) ==
    IF IsColorCategory(style, "mapping_line") THEN "mapping_line"
    ELSE IF IsColorCategory(style, "path_line") THEN "path_line"
    ELSE IF IsColorCategory(style, "green") THEN "green"
    ELSE IF IsColorCategory(style, "fairway") THEN "fairway"
    ELSE IF IsColorCategory(style, "bunker") THEN "bunker"
    ELSE IF IsColorCategory(style, "water") THEN "water"
    ELSE IF IsColorCategory(style, "tree") THEN "tree"
    ELSE "other"

\* one call of categorize_element_by_color on the element of the document
CategorizeElement ==
    /\ last' = [op |-> "categorize_element_by_color",
                category |-> CategorizeStyle(doc[Root].style)]
    /\ ran' = ran \cup {"categorize_element_by_color"}
    /\ steps' = steps + 1
    /\ UNCHANGED <<doc, pre, files>>

----------------------------------------------------------------------------
(* Specification SpecColor: categorize_element_by_color on one element.    *)
(* Fill and stroke are absent, none, or a colour that differs from one of  *)
(* the seven targets in at most one channel, by at most one more than the  *)
(* tolerance; or the element has no style.                                 *)

MaxCategorizeCalls == 1

Offsets == {0 - (Tolerance + 1), 0 - Tolerance, 0, Tolerance, Tolerance + 1}

Shifted(rgb, channel, offset) ==
    Rgb(rgb[1] + (IF channel = 1 THEN offset ELSE 0),
        rgb[2] + (IF channel = 2 THEN offset ELSE 0),
        rgb[3] + (IF channel = 3 THEN offset ELSE 0))

StyleValues ==
    {Absent, NoneValue}
    \cup {Shifted(COLORS[category].rgb, channel, offset) :
            category \in DOMAIN COLORS, channel \in 1..3, offset \in Offsets}

Styles ==
    [present : {TRUE}, fill : StyleValues, stroke : StyleValues]
    \cup [present : {FALSE}, fill : {Absent}, stroke : {Absent}]

InitColor ==
    /\ doc \in {[n \in {Root} |-> [tag |-> "path", style |-> style]] : style \in Styles}
    /\ pre = doc
    /\ last = [op |-> "none"]
    /\ ran = {}
    /\ steps = 0
    /\ files = <<>>

NextColor ==
    \/ steps < MaxCategorizeCalls /\ CategorizeElement

SpecColor == InitColor /\ [][NextColor]_vars

\* the categories in the order of the tests
CategoryOrder ==
    <<"mapping_line", "path_line", "green", "fairway", "bunker", "water", "tree">>

\* every channel of a colour in the inclusive range target - 8 .. target + 8
InRangeOf(value, category) ==
    /\ value.kind = "rgb"
    /\ \A i \in 1..3 : value.rgb[i] \in (COLORS[category].rgb[i] - 8)..(COLORS[category].rgb[i] + 8)

\* the category matches, as stated: the stroke for the two line categories,
\* the fill for the others; mapping_line only without a fill
CategoryMatches(style, category) ==
    /\ style.present
    /\ IF category \in {"mapping_line", "path_line"}
       THEN InRangeOf(style.stroke, category)
       ELSE InRangeOf(style.fill, category)
    /\ category = "mapping_line" => style.fill.kind \in {"absent", "none"}

FirstMatch(style) ==
    LET matching == {i \in 1..Len(CategoryOrder) : CategoryMatches(style, CategoryOrder[i])}
    IN  IF matching = {} THEN "other" ELSE CategoryOrder[Min(matching)]

Categorized == last.op = "categorize_element_by_color"

\* C14: categorize_element_by_color returns the first category, in the order
\* mapping_line, path_line, green, fairway, bunker, water, tree, whose colour
\* matches the element's fill (stroke for the two line categories) within 8
\* per channel, both ends included, mapping_line only for an element whose
\* fill is absent or none; and 'other' when no category matches.
C14_FirstMatchingCategory ==
    Categorized => last.category = FirstMatch(doc[Root].style)

\* a path with a stroke at the edge of the path_line range and a fill in the
\* green range has been categorized as a path_line
C14_Witness ==
    /\ Categorized
    /\ last.category = "path_line"
    /\ doc[Root].style.stroke = Shifted(COLORS["path_line"].rgb, 2, 8)
    /\ InRangeOf(doc[Root].style.fill, "green")

----------------------------------------------------------------------------
(* Exact arithmetic for the placement of a hole (auto_place_holes.py,      *)
(* geometry_utils.py).  A number is a fraction <<n, d>> in lowest terms    *)
(* with d > 0; a point is a pair of numbers.  An angle is the direction    *)
(* [cos, sin] it turns the x axis to, with the unit it is expressed in;    *)
(* the holes looked at have a rational sine and cosine.                    *)

Q(n, d) ==
    LET g == GCD(Abs(n), Abs(d))
        s == IF d < 0 THEN -1 ELSE 1
    IN  <<(s * n) \div g, (s * d) \div g>>

QInt(n) == <<n, 1>>
QNeg(a) == <<0 - a[1], a[2]>>
QAdd(a, b) ==
    LET l == (a[2] \div GCD(a[2], b[2])) * b[2]
    IN  Q(a[1] * (l \div a[2]) + b[1] * (l \div b[2]), l)
QSub(a, b) == QAdd(a, QNeg(b))
QMul(a, b) ==
    LET g1 == GCD(Abs(a[1]), b[2])
        g2 == GCD(Abs(b[1]), a[2])
    IN  IF a[1] = 0 \/ b[1] = 0 THEN <<0, 1>>
        ELSE <<(a[1] \div g1) * (b[1] \div g2), (a[2] \div g2) * (b[2] \div g1)>>
QDiv(a, b) == QMul(a, IF b[1] < 0 THEN <<0 - b[2], 0 - b[1]>> ELSE <<b[2], b[1]>>)
QHalf(a) == QMul(a, <<1, 2>>)
QLess(a, b) == QSub(a, b)[1] < 0
QLeq(a, b) == QSub(a, b)[1] <= 0
QMinOf(S) == CHOOSE x \in S : \A y \in S : QLeq(x, y)
QMaxOf(S) == CHOOSE x \in S : \A y \in S : QLeq(y, x)

\* the whole-number root of a square
RECURSIVE RootFrom(_, _)
RootFrom(n, k) == IF k * k >= n THEN k ELSE RootFrom(n, k + 1)
IsSquare(n) == RootFrom(n, 0) * RootFrom(n, 0) = n
QSqrt(a) == <<RootFrom(a[1], 0), RootFrom(a[2], 0)>>

QPoint(v) == <<Q(v[1], v[3]), Q(v[2], v[3])>>      \* a point <<x, y, den>> as a pair of numbers

\* math.atan2(dy, dx): the direction of (dx, dy); atan2(0, 0) is 0
Atan2(dy, dx) ==
    IF dx[1] = 0 /\ dy[1] = 0 THEN [cos |-> QInt(1), sin |-> QInt(0), unit |-> "radians"]
    ELSE Bind(QSqrt(QAdd(QMul(dx, dx), QMul(dy, dy))), LAMBDA r :
            [cos |-> QDiv(dx, r), sin |-> QDiv(dy, r), unit |-> "radians"])

\* direction_angles (geometry_utils.py 178-183), +Y down
DirectionAngles ==
    [direction \in {"up", "down", "left", "right"} |->
        CASE direction = "up" -> [cos |-> QInt(0), sin |-> QInt(-1), unit |-> "radians"]
          [] direction = "down" -> [cos |-> QInt(0), sin |-> QInt(1), unit |-> "radians"]
          [] direction = "left" -> [cos |-> QInt(-1), sin |-> QInt(0), unit |-> "radians"]
          [] direction = "right" -> [cos |-> QInt(1), sin |-> QInt(0), unit |-> "radians"]]

\* a - b of two angles
AngleMinus(a, b) ==
    [cos |-> QAdd(QMul(a.cos, b.cos), QMul(a.sin, b.sin)),
     sin |-> QSub(QMul(a.sin, b.cos), QMul(a.cos, b.sin)),
     unit |-> a.unit]

\* math.degrees
MathDegrees(angle) == [angle EXCEPT !.unit = "degrees"]

\* calculate_rotation_angle with the difference the other way round
CalculateRotationAngleReversed(target_point, center_point, target_direction) ==
    Bind(Atan2(QSub(target_point[2], center_point[2]), QSub(target_point[1], center_point[1])),
         LAMBDA angle_to_target :
    Bind(IF target_direction \notin DOMAIN DirectionAngles THEN "up" ELSE target_direction,
         LAMBDA direction :
        MathDegrees(AngleMinus(angle_to_target, DirectionAngles[direction]))))

\* geometry_utils.calculate_rotation_angle
CalculateRotationAngle(target_point, center_point, target_direction) ==
    Bind(Atan2(QSub(target_point[2], center_point[2]), QSub(target_point[1], center_point[1])),
         LAMBDA angle_to_target :
    Bind(IF target_direction \notin DOMAIN DirectionAngles THEN "up" ELSE target_direction,
         LAMBDA direction :
        MathDegrees(AngleMinus(DirectionAngles[direction], angle_to_target))))

\* inkex.Transform as the matrix (a, b, c, d, e, f):
\* (x, y) |-> (a x + c y + e, b x + d y + f)
Matrix(a, b, c, d, e, f) == [a |-> a, b |-> b, c |-> c, d |-> d, e |-> e, f |-> f]

TransformTranslate(tx, ty) == Matrix(QInt(1), QInt(0), QInt(0), QInt(1), tx, ty)
TransformScale(s) == Matrix(s, QInt(0), QInt(0), s, QInt(0), QInt(0))

\* Transform(rotate=angle), the angle in degrees
TransformRotate(angle) ==
    CASE angle.unit = "degrees" ->
            Matrix(angle.cos, angle.sin, QNeg(angle.sin), angle.cos, QInt(0), QInt(0))

\* m @ n: first n, then m
MatMul(m, n) ==
    Matrix(QAdd(QMul(m.a, n.a), QMul(m.c, n.b)), QAdd(QMul(m.b, n.a), QMul(m.d, n.b)),
           QAdd(QMul(m.a, n.c), QMul(m.c, n.d)), QAdd(QMul(m.b, n.c), QMul(m.d, n.d)),
           QAdd(QAdd(QMul(m.a, n.e), QMul(m.c, n.f)), m.e),
           QAdd(QAdd(QMul(m.b, n.e), QMul(m.d, n.f)), m.f))

ApplyMatrix(m, p) ==
    <<QAdd(QAdd(QMul(m.a, p[1]), QMul(m.c, p[2])), m.e),
      QAdd(QAdd(QMul(m.b, p[1]), QMul(m.d, p[2])), m.f)>>

\* translate(c) @ op @ translate(-c)
About(center, op) ==
    MatMul(MatMul(TransformTranslate(center[1], center[2]), op),
           TransformTranslate(QNeg(center[1]), QNeg(center[2])))

\* the box of a set of points under a transform
QBox(m, P) ==
    Bind({ApplyMatrix(m, p) : p \in P}, LAMBDA T :
        [left |-> QMinOf({p[1] : p \in T}), right |-> QMaxOf({p[1] : p \in T}),
         top |-> QMinOf({p[2] : p \in T}), bottom |-> QMaxOf({p[2] : p \in T})])

BoxWidth(b) == QSub(b.right, b.left)
BoxHeight(b) == QSub(b.bottom, b.top)
BoxMiddle(b) == <<QHalf(QAdd(b.left, b.right)), QHalf(QAdd(b.top, b.bottom))>>

\* AutoPlaceHoles.BOUNDING_BOX, in thousandths of an inch
BOUNDING_BOX == [x |-> 257, y |-> 247, width |-> 3736, height |-> 6756]

\* self.svg.unittouu(f"{value}in") in a document whose user unit is a
\* thousandth of an inch
UnitToUU(thousandths) == QInt(thousandths)

\* the points of the terrain (the green_NN, the fairways and the bunkers)
TerrainPoints(d, hole_group, hole_num) ==
    {<<QInt(p[1]), QInt(p[2])>> : p \in ShapePoints(d, TerrainElements(d, hole_group, hole_num))}

\* AutoPlaceHoles._process_hole, lines 284-311: the green's centroid, the
\* centre of the terrain box, and the rotation about that centre
HoleRotation(d, hole_group, hole_num) ==
    Bind(QPoint(CalculateCentroid(d, <<FindGreenElement(d, hole_group, hole_num)>>)),
         LAMBDA green_centroid :
    Bind(BoxMiddle(QBox(TransformScale(QInt(1)), TerrainPoints(d, hole_group, hole_num))),
         LAMBDA hole_center :
    Bind(CalculateRotationAngle(green_centroid, hole_center, "up"), LAMBDA rotation_angle :
        [green_centroid |-> green_centroid, hole_center |-> hole_center,
         rotation_angle |-> rotation_angle,
         rotation_transform |-> About(hole_center, TransformRotate(rotation_angle))])))

\* lines 313-343: the scale, 0.90 of the smaller fit ratio, about the middle
\* of the measured box
HoleScale(measured_bbox) ==
    Bind(UnitToUU(BOUNDING_BOX.width), LAMBDA bbox_width :
    Bind(UnitToUU(BOUNDING_BOX.height), LAMBDA bbox_height :
    Bind(IF QLess(QInt(0), BoxWidth(measured_bbox))
         THEN QDiv(bbox_width, BoxWidth(measured_bbox)) ELSE QInt(1), LAMBDA scale_x :
    Bind(IF QLess(QInt(0), BoxHeight(measured_bbox))
         THEN QDiv(bbox_height, BoxHeight(measured_bbox)) ELSE QInt(1), LAMBDA scale_y :
    Bind(QMul(QMinOf({scale_x, scale_y}), Q(90, 100)), LAMBDA calculated_scale :
        [calculated_scale |-> calculated_scale,
         scale_transform |-> About(BoxMiddle(measured_bbox), TransformScale(calculated_scale))])))))

\* lines 345-362: the translation that puts the middle of the scaled box on
\* the middle of the target box
HoleCentering(scaled_bbox) ==
    Bind(<<QAdd(UnitToUU(BOUNDING_BOX.x), QHalf(UnitToUU(BOUNDING_BOX.width))),
           QAdd(UnitToUU(BOUNDING_BOX.y), QHalf(UnitToUU(BOUNDING_BOX.height)))>>,
         LAMBDA target_center :
        TransformTranslate(QSub(target_center[1], BoxMiddle(scaled_bbox)[1]),
                           QSub(target_center[2], BoxMiddle(scaled_bbox)[2])))

\* lines 364-375: the shift that puts the left edge half an inch inside the
\* left edge of the target box
LeftJustify(centered_bbox) ==
    TransformTranslate(QSub(QAdd(UnitToUU(BOUNDING_BOX.x), UnitToUU(500)), centered_bbox.left),
                       QInt(0))

\* AutoPlaceHoles._process_hole, the transform the hole group ends with (for
\* a hole for which _process_hole does not raise); each measurement is the
\* box of the terrain under the hole group's transform at that moment
HoleTransform(d, hole_group, hole_num) ==
    Bind(TerrainPoints(d, hole_group, hole_num), LAMBDA terrain :
    Bind(HoleRotation(d, hole_group, hole_num), LAMBDA rotation :
    Bind(QBox(rotation.rotation_transform, terrain), LAMBDA measured_bbox :
    Bind(HoleScale(measured_bbox), LAMBDA scale :
    Bind(MatMul(scale.scale_transform, rotation.rotation_transform), LAMBDA scaled :
    Bind(QBox(scaled, terrain), LAMBDA scaled_bbox :
    Bind(MatMul(HoleCentering(scaled_bbox), scaled), LAMBDA centered :
    Bind(QBox(centered, terrain), LAMBDA centered_bbox :
    Bind(MatMul(LeftJustify(centered_bbox), centered), LAMBDA final_transform :
        [rotation |-> rotation, measured_bbox |-> measured_bbox,
         calculated_scale |-> scale.calculated_scale,
         final_transform |-> final_transform,
         terrain_bbox |-> QBox(final_transform, terrain)])))))))))

\* one call of _process_hole for hole 1 of the document
PlaceHole ==
    /\ FindHoleGroup(doc, Name("hole", 1)) # None
    /\ pre' = doc
    /\ ran' = ran \cup {"auto_place_holes"}
    /\ steps' = steps + 1
    /\ UNCHANGED files
    /\ \E hole_group \in {FindHoleGroup(doc, Name("hole", 1))} :
       \E r \in {ProcessHole(doc, hole_group, 1)} :
        /\ doc' = r.doc
        /\ last' = IF r.ok
                   THEN [op |-> "process_hole", ok |-> TRUE,
                         placement |-> HoleTransform(doc, hole_group, 1)]
                   ELSE [op |-> "process_hole", ok |-> FALSE]

\* one call of calculate_rotation_angle for the green centroid and the centre
\* of hole 1, and the rotation about the centre by the angle it returns
RotationAngle(target_direction) ==
    /\ FindHoleGroup(doc, Name("hole", 1)) # None
    /\ ProcessHole(doc, FindHoleGroup(doc, Name("hole", 1)), 1).ok
    /\ steps' = steps + 1
    /\ UNCHANGED <<doc, pre, ran, files>>
    /\ \E h \in {HoleRotation(doc, FindHoleGroup(doc, Name("hole", 1)), 1)} :
       \E angle \in {CalculateRotationAngle(h.green_centroid, h.hole_center, target_direction)} :
        last' = [op |-> "calculate_rotation_angle",
                 target_point |-> h.green_centroid, center_point |-> h.hole_center,
                 target_direction |-> target_direction, angle |-> angle,
                 rotated |-> ApplyMatrix(About(h.hole_center, TransformRotate(angle)),
                                         h.green_centroid)]

----------------------------------------------------------------------------
(* Specification SpecPlace: _process_hole and calculate_rotation_angle on  *)
(* a document with one hole group, hole_01, made of a fairways group with  *)
(* one rectangular fairway and a square green inside it.  The user unit is *)
(* a thousandth of an inch.  The holes differ in the width and height of   *)
(* the fairway, in where the green lies from the middle of the fairway     *)
(* (eight directions, four of them along an axis), in where the hole lies  *)
(* in the document, and in the id of the green.                            *)

MaxPlaceSteps == 1

Rectangle(left, top, width, height) ==
    << <<left, top>>, <<left + width, top>>, <<left + width, top + height>>,
       <<left, top + height>> >>

\* where the middle of the green lies from the middle of the fairway
GreenOffsets ==
    {<<0, -5>>, <<0, 5>>, <<5, 0>>, <<-5, 0>>, <<3, 4>>, <<-3, -4>>, <<4, -3>>, <<-4, 3>>, <<0, 0>>}

FairwaySizes == {<<12, 40>>, <<20, 40>>, <<24, 40>>, <<40, 40>>, <<40, 12>>}

HoleOrigins == {<<0, 0>>, <<300, 100>>}

GreenNames == {Name("green", 1), <<"green", 1, 1>>, Name("putting", 1)}

PlaceDoc(size, offset, origin, green_id) ==
    (0 :> Element("svg", NoName, NoName, <<1>>)) @@
    (1 :> Group(NoName, Name("hole", 1), <<2, 4>>)) @@
    (2 :> Group(NoName, Word("fairways"), <<3>>)) @@
    (3 :> Shape("path", "fairway", Rectangle(origin[1], origin[2], size[1], size[2]), Identity)) @@
    (4 :> [Shape("path", "green",
                 Rectangle(origin[1] + size[1] \div 2 + offset[1] - 1,
                           origin[2] + size[2] \div 2 + offset[2] - 1, 2, 2), Identity)
            EXCEPT !.id = green_id])

PlaceDocs ==
    {PlaceDoc(size, offset, origin, Name("green", 1)) :
        size \in FairwaySizes, offset \in GreenOffsets, origin \in HoleOrigins}
    \cup {PlaceDoc(<<12, 40>>, <<0, -5>>, <<0, 0>>, green_id) : green_id \in GreenNames}

Directions == {"up", "down", "left", "right", "north"}

InitPlace ==
    /\ doc \in PlaceDocs
    /\ pre = doc
    /\ last = [op |-> "none"]
    /\ ran = {"flatten_svg", "group_hole"}
    /\ steps = 0
    /\ files = <<>>

NextPlace ==
    \/ steps < MaxPlaceSteps /\ PlaceHole
    \/ steps < MaxPlaceSteps /\ \E target_direction \in Directions : RotationAngle(target_direction)

SpecPlace == InitPlace /\ [][NextPlace]_vars

----------------------------------------------------------------------------
(* Claims about the placement of a hole *)

Placed == last.op = "process_hole" /\ last.ok

\* the target box of the top area in user units
TargetBox ==
    [left |-> UnitToUU(BOUNDING_BOX.x),
     right |-> QAdd(UnitToUU(BOUNDING_BOX.x), UnitToUU(BOUNDING_BOX.width)),
     top |-> UnitToUU(BOUNDING_BOX.y),
     bottom |-> QAdd(UnitToUU(BOUNDING_BOX.y), UnitToUU(BOUNDING_BOX.height))]

Inside(inner, outer) ==
    /\ QLeq(outer.left, inner.left) /\ QLeq(inner.right, outer.right)
    /\ QLeq(outer.top, inner.top) /\ QLeq(inner.bottom, outer.bottom)

\* the smaller of the two fit ratios of a box, times 0.90
FitScale(box) ==
    QMul(Q(9, 10), QMinOf({QDiv(UnitToUU(BOUNDING_BOX.width), BoxWidth(box)),
                           QDiv(UnitToUU(BOUNDING_BOX.height), BoxHeight(box))}))

\* C15: after _process_hole has succeeded, the hole has been scaled by 0.90
\* times the smaller of the width and height fit ratios of the rotated
\* terrain, and the box of the terrain under the final transform of the hole
\* lies inside the target box of the top area.
C15_TerrainInsideTargetBox ==
    Placed =>
        /\ last.placement.calculated_scale = FitScale(last.placement.measured_bbox)
        /\ Inside(last.placement.terrain_bbox, TargetBox)

\* what does hold: the scale, the top and bottom edges and the left edge
\* half an inch inside; and the right edge whenever the scaled terrain is
\* at most 3.236in wide (the width of the box less the half inch)
TerrainInsideTargetBoxWhenNarrow ==
    Placed =>
        /\ last.placement.calculated_scale = FitScale(last.placement.measured_bbox)
        /\ QLeq(TargetBox.top, last.placement.terrain_bbox.top)
        /\ QLeq(last.placement.terrain_bbox.bottom, TargetBox.bottom)
        /\ last.placement.terrain_bbox.left = QAdd(TargetBox.left, UnitToUU(500))
        /\ QLeq(BoxWidth(last.placement.terrain_bbox), UnitToUU(BOUNDING_BOX.width - 500))
            => Inside(last.placement.terrain_bbox, TargetBox)

RotationComputed == last.op = "calculate_rotation_angle"

\* C16: when the green centroid is not the hole centre, the rotation about
\* the hole centre by calculate_rotation_angle(green_centroid, hole_centre,
\* direction), for the direction 'up' and for a direction name that is not
\* known, takes the green centroid to a point with the x of the hole centre
\* and a smaller y.
C16_GreenRotatedAboveCentre ==
    /\ RotationComputed
    /\ last.target_direction \notin {"down", "left", "right"}
    /\ last.target_point # last.center_point
    => /\ last.rotated[1] = last.center_point[1]
       /\ QLess(last.rotated[2], last.center_point[2])

\* a green to the lower left of the centre has been rotated for a direction
\* name that is not known
C16_Witness ==
    /\ RotationComputed
    /\ last.target_direction = "north"
    /\ QLess(last.target_point[1], last.center_point[1])
    /\ QLess(last.center_point[2], last.target_point[2])
    /\ last.rotated[1] = last.center_point[1]

----------------------------------------------------------------------------
(* Claims about Auto-Place Holes on holes with several greens *)

AutoPlaced == last.op = "auto_place_holes"

\* the holes that, before the run, had a hole group with greens green_NN_01,
\* green_NN_02, ... among its children
SeveralGreens(d, hole_num) ==
    /\ FindHoleGroup(d, Name("hole", hole_num)) # None
    /\ \E c \in Range(d[FindHoleGroup(d, Name("hole", hole_num))].kids) :
            d[c].id = <<"green", hole_num, 2>>

SingleGreen(d, hole_num) ==
    /\ FindHoleGroup(d, Name("hole", hole_num)) # None
    /\ \E c \in Range(d[FindHoleGroup(d, Name("hole", hole_num))].kids) :
            d[c].id = Name("green", hole_num)

IsProcessed(hole_num) ==
    /\ hole_num \in Range(last.processed)
    /\ hole_num \notin Range(last.failed)
    /\ doc[FindHoleGroup(doc, Name("hole", hole_num))].placed

\* C17: after an Auto-Place Holes run, a hole whose greens carry the ids
\* green_NN_01, green_NN_02, ... is among the processed holes, not among the
\* failed ones, and its group has been placed.
C17_SeveralGreensProcessed ==
    AutoPlaced =>
        \A hole_num \in FirstHole..LastHole : SeveralGreens(pre, hole_num) => IsProcessed(hole_num)

\* what does hold: the holes with a single green green_NN are processed
SingleGreenProcessed ==
    AutoPlaced =>
        \A hole_num \in FirstHole..LastHole : SingleGreen(pre, hole_num) => IsProcessed(hole_num)

----------------------------------------------------------------------------
(* glyph_library.py and the tee yardage block of add_hole_label.py.  A     *)
(* text is a sequence of characters.  A glyph library maps each character  *)
(* it has to the bounding box [left, top, right, bottom] of its path in    *)
(* the library (whole numbers, y down).  Lengths are exact fractions.      *)

\* glyph.bounding_box() of a library glyph
GlyphBox(library, char) ==
    [left |-> QInt(library[char].left), right |-> QInt(library[char].right),
     top |-> QInt(library[char].top), bottom |-> QInt(library[char].bottom)]

\* final_x without cancelling the glyph's position in the library
FinalXAtLibraryOffset(current_x, bbox, scale_factor) == current_x

\* final_x (glyph_library.py 172)
FinalX(current_x, bbox, scale_factor) == QSub(current_x, QMul(bbox.left, scale_factor))

\* compose_text, the step for one character; acc is the group so far,
\* current_x and max_height
ComposeChar(library, char, acc, baseline_y, scale_factor, spacing) ==
    IF char = " "
    THEN [acc EXCEPT !.current_x = QAdd(@, QMul(scale_factor, Q(16, 10))),
                     !.max_height = QMaxOf({@, QMul(scale_factor, Q(63, 10))})]
    ELSE IF char \notin DOMAIN library THEN acc
    ELSE Bind(GlyphBox(library, char), LAMBDA bbox :
        IF BoxWidth(bbox)[1] = 0 THEN acc
        ELSE Bind(FinalX(acc.current_x, bbox, scale_factor), LAMBDA final_x :
             Bind(QSub(baseline_y, QMul(bbox.bottom, scale_factor)), LAMBDA final_y :
                [group |-> Append(acc.group,
                                  [char |-> char,
                                   transform |-> MatMul(TransformTranslate(final_x, final_y),
                                                        TransformScale(scale_factor))]),
                 current_x |-> QAdd(QAdd(acc.current_x, QMul(BoxWidth(bbox), scale_factor)),
                                    spacing),
                 max_height |-> QMaxOf({acc.max_height,
                                        QMul(BoxHeight(bbox), scale_factor)})])))

RECURSIVE ComposeChars(_, _, _, _, _, _)
ComposeChars(library, text, acc, baseline_y, scale_factor, spacing) ==
    IF text = <<>> THEN acc
    ELSE Bind(ComposeChar(library, Head(text), acc, baseline_y, scale_factor, spacing),
              LAMBDA with_char :
            ComposeChars(library, Tail(text), with_char, baseline_y, scale_factor, spacing))

\* GlyphLibrary.compose_text: (group, total_width, total_height)
ComposeText(library, text, x, y, font_size, spacing) ==
    Bind(ComposeChars(library, text, [group |-> <<>>, current_x |-> x, max_height |-> QInt(0)],
                      y, Q(font_size, 24), spacing), LAMBDA done :
        [group |-> done.group,
         total_width |-> IF Len(done.group) > 0 THEN QSub(QSub(done.current_x, x), spacing)
                         ELSE QInt(0),
         total_height |-> done.max_height])

\* str(n) for n >= 0
DigitChars == <<"0", "1", "2", "3", "4", "5", "6", "7", "8", "9">>
RECURSIVE Str(_)
Str(n) == IF n < 10 THEN <<DigitChars[n + 1]>> ELSE Append(Str(n \div 10), DigitChars[(n % 10) + 1])

\* name.strip()
RECURSIVE LStrip(_)
LStrip(s) == IF s # <<>> /\ Head(s) = " " THEN LStrip(Tail(s)) ELSE s
Strip(s) == Reverse(LStrip(Reverse(LStrip(s))))

\* AddHoleLabel._create_tee_text_element: letter spacing 5% of the font size
CreateTeeTextElement(library, tee_font_size, text_content, x_uu, y_uu) ==
    ComposeText(library, text_content, x_uu, y_uu, tee_font_size, QMul(QInt(tee_font_size), Q(5, 100)))

\* _create_tee_yardages, lines 1037-1043: the tees with a yardage above 0 and
\* a name that is not blank, the name stripped
RECURSIVE CollectTees(_)
CollectTees(tees) ==
    IF tees = <<>> THEN <<>>
    ELSE (IF Head(tees).yardage > 0 /\ Head(tees).name # <<>> /\ Strip(Head(tees).name) # <<>>
          THEN <<[name |-> Strip(Head(tees).name), yardage |-> Head(tees).yardage]>>
          ELSE <<>>) \o CollectTees(Tail(tees))

\* every yardage starts where the widest one does
YardageXOfWidest(right_edge_uu, this_yardage_width_uu, max_yardage_width_uu) ==
    QSub(right_edge_uu, max_yardage_width_uu)

\* this_yardage_x_uu (add_hole_label.py 1116)
ThisYardageX(right_edge_uu, this_yardage_width_uu, max_yardage_width_uu) ==
    QSub(right_edge_uu, this_yardage_width_uu)

\* _create_tee_yardages, the loop at lines 1104-1138 over reversed(tees):
\* the (name, colon, yardage) elements in the order they are created
RECURSIVE TeeLineElements(_, _, _, _, _, _)
TeeLineElements(library, tee_font_size, reversed_tees, measures, current_y_uu, created) ==
    IF reversed_tees = <<>> THEN created
    ELSE Bind(Head(reversed_tees), LAMBDA tee :
         Bind(CreateTeeTextElement(library, tee_font_size, tee.name, QInt(0), QInt(0)).total_width,
              LAMBDA name_width_uu :
         Bind(QSub(QSub(measures.colon_x_uu, measures.element_spacing_uu), name_width_uu),
              LAMBDA name_x_uu :
         Bind(CreateTeeTextElement(library, tee_font_size, Str(tee.yardage), QInt(0), QInt(0)).total_width,
              LAMBDA this_yardage_width_uu :
         Bind(ThisYardageX(measures.right_edge_uu, this_yardage_width_uu,
                           measures.max_yardage_width_uu), LAMBDA this_yardage_x_uu :
         Bind(Append(created,
                <<CreateTeeTextElement(library, tee_font_size, tee.name, name_x_uu, current_y_uu).group,
                  CreateTeeTextElement(library, tee_font_size, <<":">>, measures.colon_x_uu, current_y_uu).group,
                  CreateTeeTextElement(library, tee_font_size, Str(tee.yardage), this_yardage_x_uu, current_y_uu).group>>),
              LAMBDA with_line :
         Bind(QSub(current_y_uu, measures.line_spacing_uu), LAMBDA next_y_uu :
            TeeLineElements(library, tee_font_size, Tail(reversed_tees), measures,
                            next_y_uu, with_line))))))))

RECURSIVE Flatten(_)
Flatten(lines) == IF lines = <<>> THEN <<>> ELSE Head(lines) \o Flatten(Tail(lines))

\* AddHoleLabel._create_tee_yardages: the anchor (3.901in, 6.911in), the
\* measures, and the children of the tee_yardages group (none: no group)
TeeYardages(library, tee_font_size, options_tees) ==
    Bind(CollectTees(options_tees), LAMBDA tees :
        IF tees = <<>> THEN [tees |-> tees, children |-> <<>>]
        ELSE
    Bind(UnitToUU(3901), LAMBDA right_edge_uu :
    Bind(QMul(QInt(tee_font_size), Q(20, 100)), LAMBDA element_spacing_uu :
    Bind(CreateTeeTextElement(library, tee_font_size, <<":">>, QInt(0), QInt(0)).total_width,
         LAMBDA colon_width_uu :
    Bind(QMaxOf({QInt(0)} \cup
                {CreateTeeTextElement(library, tee_font_size, Str(tees[i].yardage),
                                      QInt(0), QInt(0)).total_width : i \in 1..Len(tees)}),
         LAMBDA max_yardage_width_uu :
    Bind([right_edge_uu |-> right_edge_uu,
          element_spacing_uu |-> element_spacing_uu,
          line_spacing_uu |-> QMul(QInt(tee_font_size), Q(35, 100)),
          colon_width_uu |-> colon_width_uu,
          max_yardage_width_uu |-> max_yardage_width_uu,
          base_y_uu |-> UnitToUU(6911),
          colon_x_uu |-> QSub(QSub(QSub(right_edge_uu, max_yardage_width_uu),
                                   element_spacing_uu), colon_width_uu)], LAMBDA measures :
        [tees |-> tees, measures |-> measures,
         children |-> Flatten(Reverse(TeeLineElements(library, tee_font_size, Reverse(tees),
                                                      measures, measures.base_y_uu, <<>>)))]))))))

\* one call of compose_text with the library of the extension
ComposeTextCall(text, x, y, font_size, spacing) ==
    /\ \E r \in {ComposeText(files["glyph_library"], text, x, y, font_size, spacing)} :
        last' = [op |-> "compose_text", text |-> text, x |-> x, y |-> y,
                 font_size |-> font_size, spacing |-> spacing,
                 group |-> r.group, total_width |-> r.total_width,
                 total_height |-> r.total_height]
    /\ steps' = steps + 1
    /\ UNCHANGED <<doc, pre, ran, files>>

\* one call of _create_tee_yardages
CreateTeeYardagesCall(tee_font_size, options_tees) ==
    /\ \E r \in {TeeYardages(files["glyph_library"], tee_font_size, options_tees)} :
        last' = [op |-> "create_tee_yardages", tee_font_size |-> tee_font_size,
                 tees |-> r.tees, result |-> r]
    /\ steps' = steps + 1
    /\ UNCHANGED <<doc, pre, ran, files>>

----------------------------------------------------------------------------
(* Specification SpecText: compose_text and _create_tee_yardages with one  *)
(* of two glyph libraries.  In the first the glyphs lie in a row, each at  *)
(* its own place, with different widths and heights; in the second they    *)
(* all lie at the origin, are wider, and the letter e is missing.  Each    *)
(* behaviour is one call.                                                  *)

MaxTees == 2         \* the tees of the options that are filled in

Glyph(left, bottom, width, height) ==
    [left |-> left, right |-> left + width, top |-> bottom - height, bottom |-> bottom]

LibraryChars == <<"0", "1", "2", "3", "5", "9", ":", "B", "l", "u", "e", "R", "d">>

NarrowChars == {"1", ":", "l"}
TallChars == {"0", "1", "2", "3", "5", "9", "B", "l", "R", "d"}

RowLibrary ==
    [c \in Range(LibraryChars) |->
        Glyph(10 * IndexOf(LibraryChars, c), IF c \in TallChars THEN 20 ELSE 21,
              IF c \in NarrowChars THEN 2 ELSE 4, IF c \in TallChars THEN 7 ELSE 5)]

OriginLibrary ==
    [c \in Range(LibraryChars) \ {"e"} |->
        Glyph(0, 0, IF c \in NarrowChars THEN 3 ELSE 9, IF c \in TallChars THEN 12 ELSE 8)]

Libraries == {RowLibrary, OriginLibrary}

Texts ==
    {<<>>, <<"1">>, <<":">>, <<"3", "2", "5">>, <<"B", "l", "u", "e">>, <<"?">>,
     <<"B", "?", "e">>, <<"R", "e", "d", " ", "1">>, <<" ">>}

Positions == {QInt(0), Q(7, 2), QInt(11)}
FontSizes == {4, 24, 30}
Spacings == {QInt(0), Q(1, 5), QInt(2)}

\* a tee of the options: tee1_name and tee1_yardage, ...
Tee(name, yardage) == [name |-> name, yardage |-> yardage]

TeeChoices ==
    {Tee(<<>>, 0), Tee(<<"B", "l", "u", "e">>, 325), Tee(<<" ", "R", "e", "d", " ">>, 95),
     Tee(<<"R", " ", "d">>, 1050), Tee(<<" ", " ">>, 300), Tee(<<"B", "l", "u", "e">>, 0)}

\* the six tees of the options: the first MaxTees chosen, the others left at
\* their defaults
TeeOptionLists ==
    {[i \in 1..6 |-> IF i <= MaxTees THEN chosen[i] ELSE Tee(<<>>, 0)] :
        chosen \in [1..MaxTees -> TeeChoices]}

InitText ==
    /\ doc = (Root :> Element("svg", NoName, NoName, <<>>))
    /\ pre = doc
    /\ last = [op |-> "none"]
    /\ ran = {}
    /\ steps = 0
    /\ files \in {("glyph_library" :> library) : library \in Libraries}

NextText ==
    \/ steps = 0 /\ \E text \in Texts, x \in Positions, y \in Positions,
                                  font_size \in FontSizes, spacing \in Spacings :
                                    ComposeTextCall(text, x, y, font_size, spacing)
    \/ steps = 0 /\ \E tee_font_size \in FontSizes, options_tees \in TeeOptionLists :
                                    CreateTeeYardagesCall(tee_font_size, options_tees)

SpecText == InitText /\ [][NextText]_vars

----------------------------------------------------------------------------
(* Claims about composed text and the tee yardage block *)

Library == files["glyph_library"]

\* the box of a placed glyph: the glyph's box in the library under the
\* transform the glyph was given
PlacedBox(g) ==
    QBox(g.transform, {<<GlyphBox(Library, g.char).left, GlyphBox(Library, g.char).top>>,
                       <<GlyphBox(Library, g.char).right, GlyphBox(Library, g.char).bottom>>})

ScaledWidth(char, font_size) == QMul(Q(font_size, 24), BoxWidth(GlyphBox(Library, char)))
ScaledHeight(char, font_size) == QMul(Q(font_size, 24), BoxHeight(GlyphBox(Library, char)))

\* the sum of s[lo..hi], by halves
RECURSIVE QSumOver(_, _, _)
QSumOver(s, lo, hi) ==
    IF lo > hi THEN QInt(0)
    ELSE IF lo = hi THEN s[lo]
    ELSE Bind(QSumOver(s, lo, (lo + hi) \div 2), LAMBDA lower :
         Bind(QSumOver(s, ((lo + hi) \div 2) + 1, hi), LAMBDA upper : QAdd(lower, upper)))

QSum(s) == QSumOver(s, 1, Len(s))

Chars(group) == [i \in 1..Len(group) |-> group[i].char]
InLibrary(text) == SelectSeq(text, LAMBDA c : c \in DOMAIN Library)
NoSpaces(text) == \A i \in 1..Len(text) : text[i] # " "

Composed == last.op = "compose_text"

\* C19: for a text without spaces, compose_text places one glyph per
\* character that the library has, in text order; the first glyph's left edge
\* is x, every later glyph's left edge is the right edge of the glyph before
\* it plus the spacing, every glyph's bottom edge is y; the width returned is
\* the sum of the scaled glyph widths plus spacing times (glyphs - 1), 0
\* when no glyph was placed; width and height are those returned for the
\* same text at every other start position.
C19_GlyphsLeftToRight ==
    Composed /\ NoSpaces(last.text) =>
        LET n == Len(last.group)
            box == [i \in 1..n |-> PlacedBox(last.group[i])]
        IN  /\ Chars(last.group) = InLibrary(last.text)
            /\ n > 0 => box[1].left = last.x
            /\ \A i \in 2..n : box[i].left = QAdd(box[i - 1].right, last.spacing)
            /\ \A i \in 1..n : box[i].bottom = last.y
            /\ last.total_width =
                    IF n = 0 THEN QInt(0)
                    ELSE QAdd(QSum([i \in 1..n |-> ScaledWidth(last.group[i].char, last.font_size)]),
                              QMul(last.spacing, QInt(n - 1)))
            /\ \A x \in Positions, y \in Positions :
                    /\ ComposeText(Library, last.text, x, y, last.font_size, last.spacing).total_width
                        = last.total_width
                    /\ ComposeText(Library, last.text, x, y, last.font_size, last.spacing).total_height
                        = last.total_height

\* three glyphs placed from a start position that is not the origin, with a
\* spacing, from the library whose glyphs lie in a row
C19_Witness ==
    /\ Composed
    /\ Library = RowLibrary
    /\ last.text = <<"3", "2", "5">> /\ Len(last.group) = 3
    /\ last.x = Q(7, 2) /\ last.y = QInt(11) /\ last.spacing = Q(1, 5)

TeesCreated == last.op = "create_tee_yardages" /\ last.tees # <<>>

\* the box of a glyph group
GroupBox(group) ==
    [left |-> QMinOf({PlacedBox(group[i]).left : i \in 1..Len(group)}),
     right |-> QMaxOf({PlacedBox(group[i]).right : i \in 1..Len(group)}),
     top |-> QMinOf({PlacedBox(group[i]).top : i \in 1..Len(group)}),
     bottom |-> QMaxOf({PlacedBox(group[i]).bottom : i \in 1..Len(group)})]

NameOf(i) == last.result.children[3 * i - 2]
ColonOf(i) == last.result.children[3 * i - 1]
YardageOf(i) == last.result.children[3 * i]

\* the right boundary (3.901in), the baseline of the last tee (6.911in), and
\* the spacings: 20% and 35% of the tee font size
RightBoundary == UnitToUU(3901)
AnchorBaseline == UnitToUU(6911)
ElementSpacing == QMul(QInt(last.tee_font_size), Q(1, 5))
LineSpacing == QMul(QInt(last.tee_font_size), Q(7, 20))

GroupWidth(group) == Bind(GroupBox(group), LAMBDA box : BoxWidth(box))

WidestYardage == QMaxOf({GroupWidth(YardageOf(i)) : i \in 1..Len(last.tees)})

----------------------------------------------------------------------------
(* geometry_utils.calculate_centroid.  An element is [tag, pts, tr]: pts   *)
(* the points of its geometry (exact fractions), tr its own translation.   *)
(* A path yields its points as vertices, in its own coordinates; every     *)
(* element with points has a bounding box, under its own transform.        *)

\* CENTROID_AREA_EPSILON
CentroidAreaEpsilon == Q(1, 10000)

GeoElement(tag, pts, tr) == [tag |-> tag, pts |-> pts, tr |-> tr]

\* level 1: the vertices of the path elements, in list order
RECURSIVE ExtractVertices(_)
ExtractVertices(elements) ==
    IF elements = <<>> THEN <<>>
    ELSE (IF Head(elements).tag = "path" THEN Head(elements).pts ELSE <<>>)
         \o ExtractVertices(Tail(elements))

\* one pass of the loop at geometry_utils.py 95-101 for the i-th vertex
CrossOf(p1, p2) == QSub(QMul(p1[1], p2[2]), QMul(p2[1], p1[2]))

ShoelaceStep(all_points, i, sums) ==
    Bind(all_points[i], LAMBDA p1 :
    Bind(all_points[(i % Len(all_points)) + 1], LAMBDA p2 :
    Bind(CrossOf(p1, p2), LAMBDA cross :
        [area |-> QAdd(sums.area, cross),
         cx |-> QAdd(sums.cx, QMul(QAdd(p1[1], p2[1]), cross)),
         cy |-> QAdd(sums.cy, QMul(QAdd(p1[2], p2[2]), cross))])))

\* the passes first..final of the loop at geometry_utils.py 95-101, one after
\* the other: area (before the halving), cx and cy
RECURSIVE ShoelaceSums(_, _, _, _)
ShoelaceSums(all_points, first, final, sums) ==
    IF first > final THEN sums
    ELSE IF first = final THEN ShoelaceStep(all_points, first, sums)
    ELSE Bind(ShoelaceSums(all_points, first, (first + final) \div 2, sums), LAMBDA so_far :
            ShoelaceSums(all_points, ((first + final) \div 2) + 1, final, so_far))

QAbs(a) == IF a[1] < 0 THEN QNeg(a) ELSE a

\* the test without abs()
AreaIsValidSigned(area) == QLess(CentroidAreaEpsilon, area)

\* abs(area) > CENTROID_AREA_EPSILON
AreaIsValid(area) == QLess(CentroidAreaEpsilon, QAbs(area))

\* element.bounding_box(): none (<<>>) for an element without geometry
GeoBoundingBox(element) ==
    IF element.pts = <<>> THEN <<>>
    ELSE <<QBox(TransformTranslate(element.tr[1], element.tr[2]), Range(element.pts))>>

\* level 2 of the code: the mean of the bounding-box centres; None is <<>>
RECURSIVE BoxCentreTotals(_, _)
BoxCentreTotals(elements, totals) ==
    IF elements = <<>> THEN totals
    ELSE Bind(GeoBoundingBox(Head(elements)), LAMBDA bbox :
            IF bbox = <<>> THEN BoxCentreTotals(Tail(elements), totals)
            ELSE BoxCentreTotals(Tail(elements),
                    [total_x |-> QAdd(totals.total_x, BoxMiddle(bbox[1])[1]),
                     total_y |-> QAdd(totals.total_y, BoxMiddle(bbox[1])[2]),
                     count |-> totals.count + 1]))

\* geometry_utils.calculate_centroid: (x, y), or <<>> for None
GeometryCalculateCentroid(elements) ==
    Bind(ExtractVertices(elements), LAMBDA all_points :
        IF Len(all_points) >= 3
        THEN Bind(ShoelaceSums(all_points, 1, Len(all_points),
                               [area |-> QInt(0), cx |-> QInt(0), cy |-> QInt(0)]),
                  LAMBDA sums :
             Bind(QHalf(sums.area), LAMBDA area :
                IF AreaIsValid(area)
                THEN <<QDiv(sums.cx, QMul(QInt(6), area)), QDiv(sums.cy, QMul(QInt(6), area))>>
                ELSE <<QDiv(QSum([i \in 1..Len(all_points) |-> all_points[i][1]]),
                            QInt(Len(all_points))),
                       QDiv(QSum([i \in 1..Len(all_points) |-> all_points[i][2]]),
                            QInt(Len(all_points)))>>))
        ELSE Bind(BoxCentreTotals(elements, [total_x |-> QInt(0), total_y |-> QInt(0), count |-> 0]),
                  LAMBDA totals :
                IF totals.count = 0 THEN <<>>
                ELSE <<QDiv(totals.total_x, QInt(totals.count)),
                       QDiv(totals.total_y, QInt(totals.count))>>))

\* one call of calculate_centroid on the elements of the document
CalculateCentroidCall ==
    /\ last' = [op |-> "calculate_centroid",
                centroid |-> GeometryCalculateCentroid([i \in 1..Len(doc[Root].kids) |->
                                                            doc[doc[Root].kids[i]]])]
    /\ steps' = steps + 1
    /\ UNCHANGED <<doc, pre, ran, files>>

----------------------------------------------------------------------------
(* Specification SpecCentroid: calculate_centroid on a list of up to       *)
(* MaxElements elements.  Each behaviour is one call.                      *)

MaxElements == 2

QPoints(pts, den) == [i \in 1..Len(pts) |-> <<Q(pts[i][1], den), Q(pts[i][2], den)>>]

NoShift == <<QInt(0), QInt(0)>>

\* a triangle, counter-clockwise, clockwise and started at another vertex; an
\* L; triangles with the areas 0.0001 and 0.00015; three points in a line;
\* two points; a path without points; a path with a transform of its own;
\* a rectangle that is not a path
GeoElements ==
    {GeoElement("path", QPoints(<< <<0, 0>>, <<4, 0>>, <<0, 2>> >>, 1), NoShift),
     GeoElement("path", QPoints(<< <<0, 2>>, <<4, 0>>, <<0, 0>> >>, 1), NoShift),
     GeoElement("path", QPoints(<< <<4, 0>>, <<0, 2>>, <<0, 0>> >>, 1), NoShift),
     GeoElement("path", QPoints(<< <<0, 0>>, <<6, 0>>, <<6, 2>>, <<2, 2>>, <<2, 6>>, <<0, 6>> >>, 1), NoShift),
     GeoElement("path", QPoints(<< <<0, 0>>, <<1, 0>>, <<0, 2>> >>, 100), NoShift),
     GeoElement("path", QPoints(<< <<0, 0>>, <<0, 3>>, <<1, 0>> >>, 100), NoShift),
     GeoElement("path", QPoints(<< <<0, 0>>, <<2, 2>>, <<6, 6>> >>, 1), NoShift),
     GeoElement("path", QPoints(<< <<1, 1>>, <<4, 3>> >>, 1), NoShift),
     GeoElement("path", <<>>, NoShift),
     GeoElement("path", QPoints(<< <<1, 0>> >>, 1), <<QInt(10), Q(1, 2)>>),
     GeoElement("rect", QPoints(<< <<2, 2>>, <<8, 2>>, <<8, 4>>, <<2, 4>> >>, 1), NoShift)}

GeoLists == UNION {[1..n -> GeoElements] : n \in 0..MaxElements}

GeoDoc(elements) ==
    [n \in 0..Len(elements) |->
        IF n = Root THEN [tag |-> "svg", kids |-> [i \in 1..Len(elements) |-> i]]
        ELSE elements[n]]

InitCentroid ==
    /\ doc \in {GeoDoc(elements) : elements \in GeoLists}
    /\ pre = doc
    /\ last = [op |-> "none"]
    /\ ran = {}
    /\ steps = 0
    /\ files = <<>>

NextCentroid ==
    \/ steps = 0 /\ CalculateCentroidCall

SpecCentroid == InitCentroid /\ [][NextCentroid]_vars

----------------------------------------------------------------------------
(* Claims about calculate_centroid *)

CentroidComputed == last.op = "calculate_centroid"

Given == [i \in 1..Len(doc[Root].kids) |-> doc[doc[Root].kids[i]]]

\* the vertices of the paths among the elements given, in order
Vertices == ExtractVertices(Given)

Next1(P, i) == IF i = Len(P) THEN 1 ELSE i + 1
EdgeCross(P, i) == QSub(QMul(P[i][1], P[Next1(P, i)][2]), QMul(P[Next1(P, i)][1], P[i][2]))
EdgeCrosses(P) == [i \in 1..Len(P) |-> EdgeCross(P, i)]

\* Area = 1/2 * sum of (x_i * y_i+1 - x_i+1 * y_i)
ShoelaceArea(P) == Bind(EdgeCrosses(P), LAMBDA cross : QHalf(QSum(cross)))

\* Cx = 1/(6 * Area) * sum of ((x_i + x_i+1) * cross_i), and Cy likewise
ShoelaceCentroid(P) ==
    Bind(EdgeCrosses(P), LAMBDA cross :
    Bind(ShoelaceArea(P), LAMBDA area :
    Bind(QMul(QInt(6), area), LAMBDA six_areas :
    Bind([i \in 1..Len(P) |-> QMul(QAdd(P[i][1], P[Next1(P, i)][1]), cross[i])], LAMBDA xs :
    Bind([i \in 1..Len(P) |-> QMul(QAdd(P[i][2], P[Next1(P, i)][2]), cross[i])], LAMBDA ys :
        <<QDiv(QSum(xs), six_areas), QDiv(QSum(ys), six_areas)>>)))))

VertexMean(P) ==
    <<QDiv(QSum([i \in 1..Len(P) |-> P[i][1]]), QInt(Len(P))),
      QDiv(QSum([i \in 1..Len(P) |-> P[i][2]]), QInt(Len(P)))>>

Boxed == SelectSeq(Given, LAMBDA e : GeoBoundingBox(e) # <<>>)

\* the centres of the bounding boxes of the elements that have one
BoxCentres == Bind(Boxed, LAMBDA boxed : [i \in 1..Len(boxed) |-> BoxMiddle(GeoBoundingBox(boxed[i])[1])])

BoxCentreAverage ==
    Bind(BoxCentres, LAMBDA centres :
        <<QDiv(QSum([i \in 1..Len(centres) |-> centres[i][1]]), QInt(Len(centres))),
          QDiv(QSum([i \in 1..Len(centres) |-> centres[i][2]]), QInt(Len(centres)))>>)

\* the vertex list started at its k-th vertex, and the list backwards
Rotated(P, k) == [i \in 1..Len(P) |-> P[((i + k - 2) % Len(P)) + 1]]
AsOnePath(P) == <<GeoElement("path", P, NoShift)>>

HasArea(P) == Bind(ShoelaceArea(P), LAMBDA area : QLess(Q(1, 10000), QAbs(area)))

\* C20: calculate_centroid returns the shoelace centroid when there are 3 or
\* more vertices and |area| > 0.0001, and then the same point for the vertex
\* list backwards and for the list started at any other vertex; the mean of
\* the vertices when there are 3 or more and |area| <= 0.0001; with fewer
\* than 3 vertices the mean of the bounding-box centres of the elements that
\* have a bounding box; and None exactly when there are fewer than 3
\* vertices and no element has a bounding box.
C20_ThreeLevelFallback ==
    CentroidComputed => \A P \in {Vertices} :
        /\ Len(P) >= 3 /\ HasArea(P) =>
            /\ last.centroid = ShoelaceCentroid(P)
            /\ GeometryCalculateCentroid(AsOnePath(Reverse(P))) = last.centroid
            /\ \A k \in 1..Len(P) :
                    GeometryCalculateCentroid(AsOnePath(Rotated(P, k))) = last.centroid
        /\ Len(P) >= 3 /\ ~HasArea(P) => last.centroid = VertexMean(P)
        /\ Len(P) < 3 /\ Boxed # <<>> => last.centroid = BoxCentreAverage
        /\ last.centroid = <<>> => Boxed = <<>>
        /\ Len(P) < 3 /\ Boxed = <<>> => last.centroid = <<>>

\* the centroid of a polygon that runs clockwise, which is neither the mean
\* of its vertices nor the mean of the box centres
C20_Witness ==
    /\ CentroidComputed
    /\ \E P \in {Vertices} :
        /\ Len(P) >= 3
        /\ \E area \in {ShoelaceArea(P)} : QLess(area, QNeg(Q(1, 10000)))
        /\ last.centroid = ShoelaceCentroid(P)
        /\ last.centroid # VertexMean(P)
        /\ last.centroid # BoxCentreAverage

----------------------------------------------------------------------------
(* Claims about the hole loop of Auto-Place Holes *)

Ascending(s) == \A i \in 1..Len(s), j \in 1..Len(s) : i < j => s[i] < s[j]

HoleGroupOf(d, hole_num) == FindHoleGroup(d, Name("hole", hole_num))

\* the last k children of a node
LastKids(d, n, k) == SubSeq(d[n].kids, Len(d[n].kids) - k + 1, Len(d[n].kids))

====
